---- MODULE Spec2Model ----
(***************************************************************************)
(* Portfolio-optimization subsystem of the Diversified Educational         *)
(* Portfolios Generator: the affinity aggregator (skill-mapper.ts), the    *)
(* projected-gradient optimizer, the frontier builder and the selector of  *)
(* the optimize route (api/optimize/route.ts), and the diversification     *)
(* score and the portfolio page that work on the route's answer.           *)
(*                                                                         *)
(* Numbers.  The code computes in IEEE-754 doubles, and so does the model: *)
(* a double is the tuple <<s, e, m3, m2, m1, m0>> of the value              *)
(* s * m * 2^e, with the sign s in {1, -1} and the 53-bit mantissa m in     *)
(* four limbs of 14 bits, m3 the highest.  The exponent e lies between      *)
(* -1074 and 971; a normal double has 2^10 <= m3 < 2^11, a subnormal one    *)
(* has the exponent -1074 and a mantissa below 2^52.  0, -0, NaN and the    *)
(* infinities are tuples of their own.  Every operation rounds its exact    *)
(* result to the nearest double, ties to even, as the hardware does: to an  *)
(* infinity above the largest double, to the grid of the subnormal doubles  *)
(* and to a zero of its sign below the least normal one, so that the values *)
(* of the model are bit for bit those of the code.                          *)
(***************************************************************************)
EXTENDS Integers, Sequences, FiniteSets, TLC

----------------------------------------------------------------------------
(* IEEE-754 double arithmetic *)

LimbBase == 2 ^ 14          \* a limb holds 14 bits
MantissaBits == 52 + 1      \* the stored bits of the mantissa and the hidden one
TopLimbFloor == 2 ^ 10      \* the highest limb of a normal mantissa is at least this
MinExponent == 0 - 1074     \* the exponent of the subnormal doubles: the least is 2^-1074
MaxExponent == 1023 - 52    \* the exponent of the largest double, (2^53 - 1) * 2^971

N == 6                      \* TRAINING_DIRECTIONS.length
Dirs == 1..N

Max(a, b) == IF a > b THEN a ELSE b
Min(a, b) == IF a < b THEN a ELSE b

Zero == <<0, 0, 0, 0, 0, 0>>
NegZero == <<0, 1, 0, 0, 0, 0>>     \* -0: the second element tells the sign
NaN == <<2, 0, 0, 0, 0, 0>>
Inf(s) == <<3 * s, 0, 0, 0, 0, 0>>

IsNaN(x) == x[1] = 2
IsZero(x) == x[1] = 0
IsInf(x) == x[1] = 3 \/ x[1] = -3
IsFinite(x) == x[1] \in {-1, 0, 1}
Sign(x) == IF x[1] > 0 THEN 1 ELSE IF x[1] < 0 THEN -1 ELSE 0

\* The zero of the sign s, and the sign of a number that is not NaN, which
\* 0 and -0 have too
ZeroOf(s) == IF s < 0 THEN NegZero ELSE Zero
SignBit(x) == IF x[1] < 0 \/ x = NegZero THEN -1 ELSE 1

\* The limbs of the mantissa of a finite x, the lowest first
Limbs(x) == <<x[6], x[5], x[4], x[3]>>

\* Columns (of any sign, below 2^30 in size) to limbs in 0..LimbBase-1, the
\* lowest first, the carry out of the last column as one more element
RECURSIVE Propagate(_, _, _)
Propagate(cols, k, carry) ==
  IF k > Len(cols) THEN <<carry>>
  ELSE LET t == cols[k] + carry
       IN <<t % LimbBase>> \o Propagate(cols, k + 1, t \div LimbBase)

\* The number of bits of the limb v
BitLen(v) ==
  IF v >= 128
  THEN IF v >= 2048
       THEN IF v >= 8192 THEN 14 ELSE IF v >= 4096 THEN 13 ELSE 12
       ELSE IF v >= 512 THEN (IF v >= 1024 THEN 11 ELSE 10)
            ELSE IF v >= 256 THEN 9 ELSE 8
  ELSE IF v >= 8
       THEN IF v >= 32 THEN (IF v >= 64 THEN 7 ELSE 6)
            ELSE IF v >= 16 THEN 5 ELSE 4
       ELSE IF v >= 2 THEN (IF v >= 4 THEN 3 ELSE 2)
            ELSE v

\* The index of the highest limb of L that is not 0, or 0
RECURSIVE TopLimb(_, _)
TopLimb(L, k) == IF k = 0 THEN 0 ELSE IF L[k] # 0 THEN k ELSE TopLimb(L, k - 1)

\* The limb of index a (0-based) of L, 0 outside it
At(L, a) == IF a >= 0 /\ a < Len(L) THEN L[a + 1] ELSE 0

\* The limb j (0-based) of M >> t for the number M of the limbs L; t of any sign
Field(L, t, j) ==
  LET a == (t \div 14) + j
      o == t % 14
  IN (At(L, a) \div (2 ^ o)) + (At(L, a + 1) % (2 ^ o)) * (2 ^ (14 - o))

\* Some limb of L up to the limb a is not 0
RECURSIVE AnyBelow(_, _)
AnyBelow(L, a) == IF a <= 0 THEN FALSE ELSE L[a] # 0 \/ AnyBelow(L, a - 1)

\* Some bit of M below the bit t is set
Sticky(L, t) ==
  IF t <= 0 THEN FALSE
  ELSE LET a == t \div 14
           o == t % 14
       IN (At(L, a) % (2 ^ o)) # 0 \/ AnyBelow(L, IF a > Len(L) THEN Len(L) ELSE a)

\* The double of sign s nearest to M * 2^e, ties to even, for the number M of
\* the limbs L; `inexact` tells that M stands for a number slightly above it
\* ... for the mantissa r of 4 limbs and a carry, after the rounding: a
\* mantissa that the rounding has taken to 2^53 is 2^52 of the next exponent
PackLimbs(s, e, r) ==
  IF r[4] = 2 * TopLimbFloor
  THEN <<s, e + 1, TopLimbFloor, 0, 0, 0>>
  ELSE <<s, e, r[4], r[3], r[2], r[1]>>

\* ... for the 53 bits m above the bit t of M, the bit `half` below them and
\* `sticky`, which tells that something lies below that bit
PackRounded(s, e, m, half, sticky) ==
  PackLimbs(s, e,
            IF half = 1 /\ (sticky \/ m[1] % 2 = 1)
            THEN Propagate(<<m[1] + 1, m[2], m[3], m[4]>>, 1, 0)
            ELSE <<m[1], m[2], m[3], m[4], 0>>)

\* ... for the number t of bits of M below its 53 highest
PackAt(s, e, L, inexact, t) ==
  PackRounded(s, e + t,
              <<Field(L, t, 0), Field(L, t, 1), Field(L, t, 2), Field(L, t, 3)>>,
              IF t <= 0 THEN 0 ELSE Field(L, t - 1, 0) % 2,
              inexact \/ Sticky(L, t - 1))

\* The rounded x within the range of the doubles: an infinity when it lies
\* above the largest double, a zero of its sign when nothing is left of it
InRange(x) ==
  IF x[2] > MaxExponent THEN Inf(x[1])
  ELSE IF x[3] = 0 /\ x[4] = 0 /\ x[5] = 0 /\ x[6] = 0 THEN ZeroOf(x[1])
  ELSE x

\* ... for the index `top` of the highest limb of L that is not 0: M is
\* rounded to its 53 highest bits, or at the bit of 2^-1074 when this lies
\* above the lowest of them (to a subnormal double, or to a zero)
PackTop(s, e, L, inexact, top) ==
  IF top = 0 THEN Zero
  ELSE InRange(PackAt(s, e, L, inexact,
                      Max(14 * (top - 1) + BitLen(L[top]) - MantissaBits,
                          MinExponent - e)))

RoundPack(s, e, L, inexact) == PackTop(s, e, L, inexact, TopLimb(L, Len(L)))

\* The finite x that is not 0 with a mantissa of 53 bits: that of a
\* subnormal x shifted up, with an exponent below MinExponent
NormalAt(x, top) ==
  PackAt(x[1], x[2], Limbs(x), FALSE,
         14 * (top - 1) + BitLen(Limbs(x)[top]) - MantissaBits)

Normal(x) == IF x[3] >= TopLimbFloor THEN x ELSE NormalAt(x, TopLimb(Limbs(x), 4))

\* The double of the integer n, |n| < 2^31
FromInt(n) ==
  IF n = 0 THEN Zero
  ELSE LET a == IF n < 0 THEN 0 - n ELSE n
       IN RoundPack(IF n < 0 THEN -1 ELSE 1, 0,
                    <<a % LimbBase, (a \div LimbBase) % LimbBase,
                      a \div (LimbBase * LimbBase)>>, FALSE)

\* -x
Neg(x) ==
  IF x[1] = 2 THEN x
  ELSE IF x = Zero THEN NegZero
  ELSE IF x = NegZero THEN Zero
  ELSE <<0 - x[1], x[2], x[3], x[4], x[5], x[6]>>

\* Math.abs(x)
MathAbs(x) == IF SignBit(x) < 0 THEN Neg(x) ELSE x

\* The mantissa of x is less than that of y
MantLess(x, y) ==
  \/ x[3] < y[3]
  \/ x[3] = y[3] /\ \/ x[4] < y[4]
                    \/ x[4] = y[4] /\ \/ x[5] < y[5]
                                      \/ x[5] = y[5] /\ x[6] < y[6]

\* |x| < |y| for finite x, y that are not 0
MagLess(x, y) == x[2] < y[2] \/ (x[2] = y[2] /\ MantLess(x, y))

\* x < y: false when x or y is NaN
Less(x, y) ==
  IF IsNaN(x) \/ IsNaN(y) THEN FALSE
  ELSE IF Sign(x) # Sign(y) THEN Sign(x) < Sign(y)
  ELSE IF Sign(x) = 0 THEN FALSE
  ELSE IF IsInf(x) \/ IsInf(y)
       THEN x # y /\ (IF Sign(x) > 0 THEN IsInf(y) ELSE IsInf(x))
  ELSE IF Sign(x) > 0 THEN MagLess(x, y) ELSE MagLess(y, x)

\* x === y and x <= y of numbers: false when x or y is NaN, and 0 === -0
StrictEquals(x, y) == ~IsNaN(x) /\ (x = y \/ (IsZero(x) /\ IsZero(y)))
Leq(x, y) == Less(x, y) \/ StrictEquals(x, y)

\* x * y
Mul(x, y) ==
  IF IsNaN(x) \/ IsNaN(y) THEN NaN
  ELSE IF IsInf(x) \/ IsInf(y)
       THEN (IF IsZero(x) \/ IsZero(y) THEN NaN ELSE Inf(Sign(x) * Sign(y)))
  ELSE IF IsZero(x) \/ IsZero(y) THEN ZeroOf(SignBit(x) * SignBit(y))
  ELSE
  LET c == Propagate(
             <<x[6] * y[6],
               x[6] * y[5] + x[5] * y[6],
               x[6] * y[4] + x[5] * y[5] + x[4] * y[6],
               x[6] * y[3] + x[5] * y[4] + x[4] * y[5] + x[3] * y[6],
               x[5] * y[3] + x[4] * y[4] + x[3] * y[5],
               x[4] * y[3] + x[3] * y[4],
               x[3] * y[3]>>, 1, 0)
  IN RoundPack(x[1] * y[1], x[2] + y[2], c, FALSE)

\* q limbs of 0
ZeroLimbs(q) == [k \in 1..q |-> 0]

\* x + y for finite x, y that are not 0, the exponent of x not below that of y
\* The limbs of the mantissa of x shifted left by d bits
Shifted(x, d) ==
  ZeroLimbs(d \div 14)
    \o Propagate(<<x[6] * 2 ^ (d % 14), x[5] * 2 ^ (d % 14),
                   x[4] * 2 ^ (d % 14), x[3] * 2 ^ (d % 14)>>, 1, 0)

\* ... for the limbs X of the mantissa of x at the exponent of y; `swap`
\* tells that x and y are of opposite signs and |x| < |y|, so that the
\* difference is that of y and x and has the sign of y
AddAligned(x, y, X, swap) ==
  RoundPack(IF swap THEN y[1] ELSE x[1], y[2],
            Propagate([k \in 1..Len(X) |->
                         (IF swap THEN -1 ELSE 1) * X[k]
                           + (IF x[1] = y[1] \/ swap THEN 1 ELSE -1)
                               * At(Limbs(y), k - 1)], 1, 0),
            FALSE)

AddOrdered(x, y) ==
  IF x[2] - y[2] >= MantissaBits + 4 THEN x
  ELSE AddAligned(x, y, Shifted(x, x[2] - y[2]),
                  x[1] # y[1] /\ x[2] = y[2] /\ MantLess(x, y))

\* x + y: the sum of two zeros is -0 when both are, and a sum of numbers
\* that are not 0 is 0, not -0, when it is exactly zero
Add(x, y) ==
  IF IsNaN(x) \/ IsNaN(y) THEN NaN
  ELSE IF IsInf(x) THEN (IF IsInf(y) /\ x # y THEN NaN ELSE x)
  ELSE IF IsInf(y) THEN y
  ELSE IF IsZero(x) THEN (IF IsZero(y) /\ x # y THEN Zero ELSE y)
  ELSE IF IsZero(y) THEN x
  ELSE AddOrdered(IF x[2] >= y[2] THEN x ELSE y, IF x[2] >= y[2] THEN y ELSE x)

\* x - y
Sub(x, y) == Add(x, Neg(y))

\* A step of the long division by the number v of 4 limbs, v[4] >= LimbBase/2:
\* for the remainder R of 5 limbs, R < v * LimbBase, the digit floor(R / v)
\* and the limbs of R - digit * v
RECURSIVE Correct(_, _, _)
Correct(q, D, v) ==
  IF D[6] >= 0 THEN <<q, D>>
  ELSE Correct(q - 1,
               LET E == Propagate(<<D[1] + v[1], D[2] + v[2], D[3] + v[3],
                                    D[4] + v[4], D[5]>>, 1, 0)
               IN <<E[1], E[2], E[3], E[4], E[5], D[6] + E[6]>>, v)

DivStep(R, v) ==
  LET est == (R[5] * LimbBase + R[4]) \div v[4]
      q == IF est >= LimbBase THEN LimbBase - 1 ELSE est
      D == Propagate(<<R[1] - q * v[1], R[2] - q * v[2], R[3] - q * v[3],
                       R[4] - q * v[4], R[5]>>, 1, 0)
  IN Correct(q, D, v)

\* The digits that the long division computes: the 4 limbs that hold the 53
\* bits of the quotient and one more for the bits that round it
QuotientDigits == 4 + 1

\* The long division after the step s: its digit below the digits so far,
\* and its remainder times LimbBase as the remainder to divide next
Stepped(acc, s) ==
  <<<<s[1]>> \o acc[1], <<0, s[2][1], s[2][2], s[2][3], s[2][4]>>>>

\* The digits of the quotient by v, the lowest first, and what is left to
\* divide, for acc = <<the digits so far, the remainder to divide next>>
RECURSIVE DivDigits(_, _)
DivDigits(acc, v) ==
  IF Len(acc[1]) = QuotientDigits THEN acc
  ELSE DivDigits(Stepped(acc, DivStep(acc[2], v)), v)

\* The double of the quotient of finite x and y that are not 0, for the
\* digits qr[1] of the division of their mantissas and what it leaves, qr[2]
DivPack(x, y, qr) ==
  RoundPack(x[1] * y[1], x[2] - y[2] - 56, qr[1], qr[2] # <<0, 0, 0, 0, 0>>)

\* x / y for finite x and y that are not 0, with mantissas of 53 bits
DivNormal(x, y) ==
  DivPack(x, y,
          DivDigits(<<<<>>,
                      Propagate(<<x[6] * 8, x[5] * 8, x[4] * 8, x[3] * 8>>, 1, 0)>>,
                    Propagate(<<y[6] * 8, y[5] * 8, y[4] * 8, y[3] * 8>>, 1, 0)))

\* x / y: x / 0 and x / -0 are infinities, 0 / 0 is NaN; the sign of an
\* infinity and of a zero is the product of the signs of x and y
Div(x, y) ==
  IF IsNaN(x) \/ IsNaN(y) THEN NaN
  ELSE IF IsInf(x) THEN (IF IsInf(y) THEN NaN ELSE Inf(SignBit(x) * SignBit(y)))
  ELSE IF IsInf(y) THEN ZeroOf(SignBit(x) * SignBit(y))
  ELSE IF IsZero(y) THEN (IF IsZero(x) THEN NaN ELSE Inf(SignBit(x) * SignBit(y)))
  ELSE IF IsZero(x) THEN ZeroOf(SignBit(x) * SignBit(y))
  ELSE DivNormal(Normal(x), Normal(y))

\* The square of the number of the 4 limbs R, as 8 limbs
Square(R) ==
  Propagate(<<R[1] * R[1],
              2 * R[1] * R[2],
              2 * R[1] * R[3] + R[2] * R[2],
              2 * R[1] * R[4] + 2 * R[2] * R[3],
              2 * R[2] * R[4] + R[3] * R[3],
              2 * R[3] * R[4],
              R[4] * R[4]>>, 1, 0)

\* The number of the limbs P is at most that of the limbs M (8 limbs each)
RECURSIVE LimbsLeq(_, _, _)
LimbsLeq(P, M, k) ==
  IF k = 0 THEN TRUE
  ELSE IF P[k] # M[k] THEN P[k] < M[k]
  ELSE LimbsLeq(P, M, k - 1)

\* floor(sqrt(M)) for the number M of 8 limbs, M < 2^110: the bits of the
\* root from the bit b down to the bit `last`, R being the root so far
RECURSIVE RootBits(_, _, _, _)
RootBits(M, R, b, last) ==
  IF b < last THEN R
  ELSE LET C == [R EXCEPT ![(b \div 14) + 1] = @ + 2 ^ (b % 14)]
       IN IF LimbsLeq(Square(C), M, 8)
          THEN RootBits(M, C, b - 1, last)
          ELSE RootBits(M, R, b - 1, last)

\* The bits of the root found in one stage: half a limb
StageBits == 14 \div 2

\* floor(sqrt(M)), for acc = <<the root so far, the highest bit not found
\* yet>>, a stage at a time
RECURSIVE RootFrom(_, _)
RootFrom(M, acc) ==
  IF acc[2] < 0 THEN acc[1]
  ELSE RootFrom(M, <<RootBits(M, acc[1], acc[2], acc[2] - StageBits + 1),
                     acc[2] - StageBits>>)

\* The double of the root of M * 2^e, e even, for R = floor(sqrt(M))
SqrtPack(e, M, R) == RoundPack(1, (e - 56) \div 2, R, Square(R) # M)

\* ... for the 8 limbs M (and a carry that is 0) of the mantissa times 2^56
SqrtOf(e, M) ==
  SqrtPack(e, <<M[1], M[2], M[3], M[4], M[5], M[6], M[7], M[8]>>,
           RootFrom(<<M[1], M[2], M[3], M[4], M[5], M[6], M[7], M[8]>>,
                    <<<<0, 0, 0, 0>>, 55>>))

\* The root of a finite x above 0 with a mantissa of 53 bits.  The mantissa
\* of an odd exponent is doubled, so that the exponent halved is an integer.
SqrtNormal(x) ==
  SqrtOf(x[2] - (x[2] % 2),
         ZeroLimbs(4)
           \o Propagate(<<x[6] * (1 + (x[2] % 2)), x[5] * (1 + (x[2] % 2)),
                          x[4] * (1 + (x[2] % 2)), x[3] * (1 + (x[2] % 2))>>,
                        1, 0))

\* Math.sqrt(x): NaN for a negative x, and -0 for -0
MathSqrt(x) ==
  IF IsNaN(x) \/ x[1] < 0 THEN NaN
  ELSE IF IsZero(x) \/ IsInf(x) THEN x
  ELSE SqrtNormal(Normal(x))

\* The integer r that a number of sign s is rounded to: -0 for the 0 of a
\* negative number
Signed(s, r) == IF r = Zero THEN ZeroOf(s) ELSE r

\* The double of sign s of the integer part `int` (4 limbs) of a number,
\* one more when `up`
RoundedUp(s, int, up) ==
  Signed(s, RoundPack(s, 0,
                      IF up THEN Propagate(<<int[1] + 1, int[2], int[3], int[4]>>, 1, 0)
                      ELSE int, FALSE))

\* Math.round(x): the integer nearest to x, a half rounded up: a fraction
\* of a half or more of a positive x, and of more than a half of a negative.
\* A negative x that is rounded to zero gives -0.
MathRound(x) ==
  IF ~IsFinite(x) \/ IsZero(x) \/ x[2] >= 0 THEN x
  ELSE IF x[2] < 0 - MantissaBits - 1 THEN ZeroOf(x[1])
  ELSE RoundedUp(x[1],
                 <<Field(Limbs(x), 0 - x[2], 0), Field(Limbs(x), 0 - x[2], 1),
                   Field(Limbs(x), 0 - x[2], 2), Field(Limbs(x), 0 - x[2], 3)>>,
                 /\ Field(Limbs(x), 0 - x[2] - 1, 0) % 2 = 1
                 /\ (x[1] > 0 \/ Sticky(Limbs(x), 0 - x[2] - 1)))

\* Math.max(x, y) and Math.min(x, y): NaN when x or y is NaN; 0 is taken as
\* greater than -0
MathMax(x, y) ==
  IF IsNaN(x) \/ IsNaN(y) THEN NaN
  ELSE IF IsZero(x) /\ IsZero(y) THEN (IF x = y THEN x ELSE Zero)
  ELSE IF Less(x, y) THEN y ELSE x

MathMin(x, y) ==
  IF IsNaN(x) \/ IsNaN(y) THEN NaN
  ELSE IF IsZero(x) /\ IsZero(y) THEN (IF x = y THEN x ELSE NegZero)
  ELSE IF Less(y, x) THEN y ELSE x

\* The double that the decimal literal n / d stands for, for integers n and
\* d = 10^k: the double nearest to the quotient
Ratio(n, d) == Div(FromInt(n), FromInt(d))

One == FromInt(1)

\* The six values F(1), ..., F(6), one for each direction
Vec(F(_)) == <<>> \o [d \in Dirs |-> F(d)]

\* Statements in their order: x is computed, and F is what the statements
\* after it compute from its value
Then(x, F(_)) == CHOOSE r \in {F(v) : v \in {x}} : TRUE

\* f.reduce((a, b) => a + b, 0) over a sequence: the sum from the left
RECURSIVE SumTo(_, _)
SumTo(f, k) == IF k = 0 THEN Zero ELSE Add(SumTo(f, k - 1), f[k])

SumSeq(f) == SumTo(f, Len(f))

\* The sum of integers, from the left
RECURSIVE CountTo(_, _)
CountTo(f, k) == IF k = 0 THEN 0 ELSE CountTo(f, k - 1) + f[k]

----------------------------------------------------------------------------
(* Affinity aggregator: src/lib/engine/skill-mapper.ts *)

COVERAGE_WEIGHT == Ratio(5, 10)
RARITY_WEIGHT == Ratio(3, 10)
BREADTH_WEIGHT == Ratio(2, 10)
RARITY_PREMIUM == FromInt(2)
AFFINITY_THRESHOLD == Ratio(3, 10)
DIAGONAL_REGULARIZATION == Ratio(1, 1000)

\* A filter that keeps every topic
KeepAllTopics(tps) == tps

\* A filter on the label of the topic, not on its number
ActiveTopicsByLabel(tps) == SelectSeq(tps, LAMBDA t : t.rarityLabel # "NO_TOPIC")

\* topics.filter((t) => t.topicNumber !== -1)
ActiveTopics(tps) == SelectSeq(tps, LAMBDA t : t.topicNumber # -1)

\* affinityMatrix[topic.topicNumber]?.[d] ?? 0
AffinityOrZero(am, t, d) ==
  IF t.topicNumber \in DOMAIN am /\ d \in DOMAIN am[t.topicNumber]
  THEN am[t.topicNumber][d]
  ELSE Zero

\* topic.count * affinity
PapersCovered(t, a) == Mul(FromInt(t.count), a)

\* A rarity bonus that no topic adds to
RarityTermOfNone(t, a) == Zero

\* A rarity bonus that adds the premium to the papers counted once already
RarityTermOnTop(t, a) ==
  IF t.rarityLabel = "RARE"
  THEN Mul(PapersCovered(t, a), Add(One, RARITY_PREMIUM))
  ELSE Zero

\* if (topic.rarityLabel === "RARE") rarityBonus += topic.count * affinity *
\* RARITY_PREMIUM: what the topic t of affinity a adds to rarityBonus
RarityTerm(t, a) ==
  IF t.rarityLabel = "RARE" THEN Mul(PapersCovered(t, a), RARITY_PREMIUM) ELSE Zero

\* A threshold that an affinity equal to it passes
ReachesThreshold(a) == Leq(AFFINITY_THRESHOLD, a)

\* if (affinity > AFFINITY_THRESHOLD), line 43
ExceedsThreshold(a) == Less(AFFINITY_THRESHOLD, a)

\* activeTopics.reduce((sum, t) => sum + t.count, 0), line 18
TotalPapers(active) ==
  CountTo([k \in 1..Len(active) |-> active[k].count], Len(active))

\* coverage, lines 30-48: the papers of the active topics that the
\* direction d covers, by Math.max(totalPapers, 1)
Coverage(active, am, d) ==
  Div(SumSeq([k \in 1..Len(active) |->
                PapersCovered(active[k], AffinityOrZero(am, active[k], d))]),
      FromInt(Max(TotalPapers(active), 1)))

\* rarityBonus, lines 31-49
RarityBonus(active, am, d) ==
  Div(SumSeq([k \in 1..Len(active) |->
                RarityTerm(active[k], AffinityOrZero(am, active[k], d))]),
      FromInt(Max(TotalPapers(active), 1)))

\* breadth, lines 32-50: the active topics whose affinity to the direction
\* d exceeds the threshold, by Math.max(activeTopics.length, 1)
Breadth(active, am, d) ==
  Div(FromInt(CountTo([k \in 1..Len(active) |->
                         IF ExceedsThreshold(AffinityOrZero(am, active[k], d))
                         THEN 1 ELSE 0], Len(active))),
      FromInt(Max(Len(active), 1)))

\* returns[d], lines 52-55
ReturnsOf(active, am) ==
  Vec(LAMBDA d :
        Add(Add(Mul(COVERAGE_WEIGHT, Coverage(active, am, d)),
                Mul(RARITY_WEIGHT, RarityBonus(active, am, d))),
            Mul(BREADTH_WEIGHT, Breadth(active, am, d))))

ComputeExpectedReturns(tps, am) ==
  Then(ActiveTopics(tps), LAMBDA active : ReturnsOf(active, am))

\* affinityMatrix[topic.topicNumber] ?? new Array(n).fill(0)
AffinityRow(am, t) ==
  IF t.topicNumber \in DOMAIN am THEN am[t.topicNumber] ELSE [d \in Dirs |-> Zero]

\* for (i) cov[i][i] += 0.001: the cell (i, j) of value c after the loop
Regularize(c, a, b) == IF a = b THEN Add(c, DIAGONAL_REGULARIZATION) ELSE c

\* affinities[d] is a value: the topic has no row (the row is then the
\* zeros of line 77), or its row holds a value for the direction d.  If not,
\* affinities[d] is undefined.
HasAffinity(am, t, d) ==
  t.topicNumber \notin DOMAIN am \/ d \in DOMAIN am[t.topicNumber]

\* undefined as an operand of + and -: NaN
Undefined == NaN

\* A matrix holds NaN in some cell
HoldsNaN(cm) == \E a, b \in Dirs : IsNaN(cm[a][b])

\* vectors, lines 75-81: for each direction the affinities of the active
\* topics to it
Vectors(active, am) ==
  Vec(LAMBDA d : <<>> \o [k \in 1..Len(active) |->
     IF HasAffinity(am, active[k], d) THEN AffinityRow(am, active[k])[d]
     ELSE Undefined])

\* means, line 84: v.reduce((a, b) => a + b, 0) / v.length
Means(vectors, m) == Vec(LAMBDA d : Div(SumSeq(vectors[d]), FromInt(m)))

\* cov[i][j], lines 92-96
Cell(vectors, means, m, a, b) ==
  Div(SumSeq([k \in 1..m |->
                Mul(Sub(vectors[a][k], means[a]), Sub(vectors[b][k], means[b]))]),
      FromInt(Max(m - 1, 1)))

\* cov, lines 87-103
CovarianceOf(vectors, means, m) ==
  Vec(LAMBDA a : Vec(LAMBDA b : Regularize(Cell(vectors, means, m, a, b), a, b)))

\* ... of the vectors of the active topics
CovarianceOfVectors(vectors, m) ==
  Then(Means(vectors, m), LAMBDA means : CovarianceOf(vectors, means, m))

\* An undefined element makes the sum of its vector NaN (number + undefined),
\* so the mean of its direction, and every cell of the row and the column of
\* that direction, are NaN; the regularization leaves NaN as it is.  With no
\* active topic the means are 0 / 0 = NaN and the sums of the cells stay 0.
ComputeCovarianceMatrix(tps, am) ==
  Then(ActiveTopics(tps), LAMBDA active :
  Then(Vectors(active, am), LAMBDA vectors :
       CovarianceOfVectors(vectors, Len(active))))

----------------------------------------------------------------------------
(* Optimizer, frontier builder and selector: api/optimize/route.ts *)

lr == Ratio(1, 100)
iterations == 2000
NUDGE == Ratio(1, 100)                    \* weights[maxRetIdx] += 0.01
MIN_RETURN_FACTOR == Ratio(7, 10)         \* Math.min(...expectedReturns) * 0.7
MAX_RETURN_FACTOR == Ratio(95, 100)       \* Math.max(...expectedReturns) * 0.95
SHARPE_RISK_FLOOR == Ratio(1, 10 ^ 8)     \* portRisk > 1e-8
FRONTIER_POINTS == 50                     \* computeEfficientFrontierTS(..., 50)
DEFAULT_MIN == Ratio(5, 100)              \* DEFAULT_CONSTRAINTS.min = 0.05
DEFAULT_MAX == Ratio(5, 10)               \* DEFAULT_CONSTRAINTS.max = 0.50
RISK_DECIMALS == FromInt(10 ^ 6)          \* Math.round(x * 1e6) / 1e6
WEIGHT_DECIMALS == FromInt(10 ^ 4)        \* Math.round(x * 1e4) / 1e4

\* Bounds whose minimum is 0
ZeroMinBounds == [d \in Dirs |-> <<Zero, DEFAULT_MAX>>]

\* TRAINING_DIRECTIONS.map(() => [DEFAULT_CONSTRAINTS.min, DEFAULT_CONSTRAINTS.max])
DefaultBounds == [d \in Dirs |-> <<DEFAULT_MIN, DEFAULT_MAX>>]

\* Math.max(...xs) and Math.min(...xs) of a vector over the directions
RECURSIVE MaxTo(_, _)
MaxTo(xs, k) == IF k = 1 THEN xs[1] ELSE MathMax(MaxTo(xs, k - 1), xs[k])
MaxOf(xs) == MaxTo(xs, N)

RECURSIVE MinTo(_, _)
MinTo(xs, k) == IF k = 1 THEN xs[1] ELSE MathMin(MinTo(xs, k - 1), xs[k])
MinOf(xs) == MinTo(xs, N)

\* The indices of xs that hold x (===: none holds NaN)
IndicesOf(xs, x) == {d \in Dirs : StrictEquals(xs[d], x)}

\* xs.lastIndexOf(x): the last index holding x, 0 for the code's -1
LastIndexOf(xs, x) ==
  IF IndicesOf(xs, x) = {} THEN 0
  ELSE CHOOSE d \in IndicesOf(xs, x) : \A e \in IndicesOf(xs, x) : e <= d

\* xs.indexOf(x): the first index holding x, 0 for the code's -1
IndexOf(xs, x) ==
  IF IndicesOf(xs, x) = {} THEN 0
  ELSE CHOOSE d \in IndicesOf(xs, x) : \A e \in IndicesOf(xs, x) : d <= e

\* A comparison that NaN satisfies
LessThanOrNaN(x, t) == IsNaN(t) \/ Less(x, t)

\* portReturn < targetReturn, false when targetReturn is NaN
LessThan(x, t) == Less(x, t)

\* weights.reduce((sum, w, i) => sum + w * expectedReturns[i], 0)
PortReturn(w, er) ==
  Then(Vec(LAMBDA d : Mul(w[d], er[d])), LAMBDA products : SumSeq(products))

\* new Array(n).fill(1 / n)
UniformWeights == Vec(LAMBDA d : Div(One, FromInt(N)))

\* Two weight arrays hold the same values (NaN taken as the same as NaN)
SameWeights(v, w) == v = w

\* optimizePortfolioTS, lines 32-37: grad[i] += 2 * covMatrix[i][j] * weights[j]
Gradient(w, cm) ==
  Vec(LAMBDA a : SumSeq(Vec(LAMBDA b : Mul(Mul(FromInt(2), cm[a][b]), w[b]))))

\* optimizePortfolioTS, lines 32-47: the weights w after the gradient step
\* and the projection on the bounds
\* lines 40-42: weights[i] -= lr * grad[i]
Descended(w, grad) == Vec(LAMBDA d : Sub(w[d], Mul(lr, grad[d])))

\* lines 45-47: Math.max(bounds[i][0], Math.min(bounds[i][1], weights[i]))
Clamped(w, bnds) ==
  Vec(LAMBDA d : MathMax(bnds[d][1], MathMin(bnds[d][2], w[d])))

Projected(w, cm, bnds) ==
  Then(Gradient(w, cm), LAMBDA grad :
  Then(Descended(w, grad), LAMBDA descended : Clamped(descended, bnds)))

\* weights.map((w) => w / sum) for sum = weights.reduce((a, b) => a + b, 0)
DividedBy(w, sum) == Vec(LAMBDA d : Div(w[d], sum))

DividedBySum(w) == Then(SumSeq(w), LAMBDA sum : DividedBy(w, sum))

\* lines 60-63: weights[maxRetIdx] += 0.01 and the division by the new sum.
\* For the index -1 (no element is the maximum: it is NaN) the assignment
\* adds a property to the array and changes none of its elements.
NudgedToward(w, maxRetIdx) ==
  Then(IF maxRetIdx = 0 THEN w ELSE [w EXCEPT ![maxRetIdx] = Add(@, NUDGE)],
       LAMBDA nudged : DividedBySum(nudged))

Nudged(w, er) == NudgedToward(w, IndexOf(er, MaxOf(er)))

\* lines 53-64: the normalized weights after the check of the return
\* constraint
Constrained(normalized, er, target) ==
  Then(PortReturn(normalized, er), LAMBDA portReturn :
       IF LessThan(portReturn, target) THEN Nudged(normalized, er)
       ELSE normalized)

\* One iteration of the loop of optimizePortfolioTS: gradient, descent,
\* projection on the bounds, normalisation, and the nudge towards the
\* direction of the highest expected return.  The division by `sum` is the
\* code's w / sum: when the projected weights sum to 0 every quotient is
\* 0 / 0 = NaN, and NaN weights stay NaN through every later iteration
\* (Math.min, Math.max, the sums and the quotients of NaN are NaN;
\* portReturn < targetReturn is false).
GradientStep(w, er, cm, target, bnds) ==
  Then(Projected(w, cm, bnds), LAMBDA projected :
  Then(DividedBySum(projected), LAMBDA normalized :
       Constrained(normalized, er, target)))

MinReturn(er) == Mul(MinOf(er), MIN_RETURN_FACTOR)
MaxReturn(er) == Mul(MaxOf(er), MAX_RETURN_FACTOR)

\* A sweep from maxReturn down to minReturn
TargetDescending(minReturn, maxReturn, k, n) ==
  Sub(maxReturn, Mul(Div(FromInt(k), FromInt(n - 1)), Sub(maxReturn, minReturn)))

SweepTargetDescending(er, k, n) ==
  TargetDescending(MinReturn(er), MaxReturn(er), k, n)

\* minReturn + (i / (numPoints - 1)) * (maxReturn - minReturn), for the
\* 0-based index i; i / 0 is 0 / 0 = NaN when numPoints = 1.
TargetBetween(minReturn, maxReturn, k, n) ==
  Add(minReturn, Mul(Div(FromInt(k), FromInt(n - 1)), Sub(maxReturn, minReturn)))

SweepTarget(er, k, n) == TargetBetween(MinReturn(er), MaxReturn(er), k, n)

\* lines 108-110: the inner loop for the index a from the index b on,
\* portVariance being pv (a sum that is NaN stays NaN)
RECURSIVE VarianceRow(_, _, _, _, _)
VarianceRow(pv, w, cm, a, b) ==
  IF IsNaN(pv) \/ b > N THEN pv
  ELSE VarianceRow(Add(pv, Mul(Mul(w[a], w[b]), cm[a][b])), w, cm, a, b + 1)

\* lines 106-111: portVariance += weights[a] * weights[b] * covMatrix[a][b],
\* over a and, within a, over b: the outer loop from the index a on
RECURSIVE VarianceFrom(_, _, _, _)
VarianceFrom(pv, w, cm, a) ==
  IF IsNaN(pv) \/ a > N THEN pv
  ELSE VarianceFrom(VarianceRow(pv, w, cm, a, 1), w, cm, a + 1)

PortVariance(w, cm) == VarianceFrom(Zero, w, cm, 1)

\* Math.sqrt(Math.max(portVariance, 0))
PortRisk(w, cm) ==
  Then(PortVariance(w, cm), LAMBDA portVariance :
       MathSqrt(MathMax(portVariance, Zero)))

\* portRisk > 1e-8
RiskAboveFloor(portRisk) == Less(SHARPE_RISK_FLOOR, portRisk)

\* portRisk > 1e-8 ? portReturn / portRisk : 0
SharpeOf(portReturn, portRisk) ==
  IF RiskAboveFloor(portRisk) THEN Div(portReturn, portRisk) ELSE Zero

\* Math.round(x * 1e6) / 1e6 and Math.round(x * 1e4) / 1e4
RoundTo(x, decimals) ==
  Then(MathRound(Mul(x, decimals)), LAMBDA rounded : Div(rounded, decimals))


\* lines 113-120: the point pushed for the weights w, risk and return
\* rounded to 6 decimals, weights and sharpe to 4
PointOf(w, portReturn, portRisk) ==
  Then(SharpeOf(portReturn, portRisk), LAMBDA sharpe :
       [risk |-> RoundTo(portRisk, RISK_DECIMALS),
        return |-> RoundTo(portReturn, RISK_DECIMALS),
        weights |-> Vec(LAMBDA d : RoundTo(w[d], WEIGHT_DECIMALS)),
        sharpe_ratio |-> RoundTo(sharpe, WEIGHT_DECIMALS)])

FrontierPoint(w, er, cm) ==
  Then(PortReturn(w, er), LAMBDA portReturn :
  Then(PortRisk(w, cm), LAMBDA portRisk : PointOf(w, portReturn, portRisk)))

\* A reduction that a later point of the same sharpe ratio wins
RECURSIVE ReduceBestSharpeLatest(_, _, _)
ReduceBestSharpeLatest(f, best, k) ==
  IF k > Len(f) THEN best
  ELSE IF Leq(f[best].sharpe_ratio, f[k].sharpe_ratio)
       THEN ReduceBestSharpeLatest(f, k, k + 1)
       ELSE ReduceBestSharpeLatest(f, best, k + 1)

\* frontier.reduce((best, p) => p.sharpe_ratio > best.sharpe_ratio ? p : best):
\* the index of the point the reduction returns, best so far, k next
RECURSIVE ReduceBestSharpe(_, _, _)
ReduceBestSharpe(f, best, k) ==
  IF k > Len(f) THEN best
  ELSE IF Less(f[best].sharpe_ratio, f[k].sharpe_ratio)
       THEN ReduceBestSharpe(f, k, k + 1)
       ELSE ReduceBestSharpe(f, best, k + 1)

\* The lowest and the highest of the risks of a frontier
RECURSIVE LowestRisk(_, _)
LowestRisk(f, k) ==
  IF k = 1 THEN f[1].risk ELSE MathMin(LowestRisk(f, k - 1), f[k].risk)

RECURSIVE HighestRisk(_, _)
HighestRisk(f, k) ==
  IF k = 1 THEN f[1].risk ELSE MathMax(HighestRisk(f, k - 1), f[k].risk)

\* A target between the lowest and the highest risk of the frontier
TargetRiskOfExtremes(f, rt) ==
  Add(LowestRisk(f, Len(f)),
      Mul(rt, Sub(HighestRisk(f, Len(f)), LowestRisk(f, Len(f)))))

\* minRisk + riskTolerance * (maxRisk - minRisk)
TargetRisk(f, rt) ==
  Add(f[1].risk, Mul(rt, Sub(f[Len(f)].risk, f[1].risk)))

\* Math.abs(p.risk - targetRisk)
RiskGap(p, targetRisk) == MathAbs(Sub(p.risk, targetRisk))

\* A reduction that a later point at the same distance wins
RECURSIVE ReduceClosestLatest(_, _, _, _)
ReduceClosestLatest(f, targetRisk, closest, k) ==
  IF k > Len(f) THEN closest
  ELSE IF Leq(RiskGap(f[k], targetRisk), RiskGap(f[closest], targetRisk))
       THEN ReduceClosestLatest(f, targetRisk, k, k + 1)
       ELSE ReduceClosestLatest(f, targetRisk, closest, k + 1)

\* frontier.reduce((closest, p) => |p.risk - targetRisk| <
\*                                 |closest.risk - targetRisk| ? p : closest)
RECURSIVE ReduceClosest(_, _, _, _)
ReduceClosest(f, targetRisk, closest, k) ==
  IF k > Len(f) THEN closest
  ELSE IF Less(RiskGap(f[k], targetRisk), RiskGap(f[closest], targetRisk))
       THEN ReduceClosest(f, targetRisk, k, k + 1)
       ELSE ReduceClosest(f, targetRisk, closest, k + 1)

\* let selected = frontier[0]; if (frontier.length > 1) { ... }
SelectByRiskTolerance(f, rt) ==
  IF Len(f) > 1 THEN ReduceClosest(f, TargetRisk(f, rt), 1, 2) ELSE 1

\* null, what JSON.stringify writes for NaN and for the infinities: a value
\* that is no double
Null == <<4, 0, 0, 0, 0, 0>>

\* The number x after JSON.stringify in the route and res.json() in the
\* page: a finite double is written with the digits that read back as the
\* same double, and -0 is written as 0
Json(x) == IF ~IsFinite(x) THEN Null ELSE IF x = NegZero THEN Zero ELSE x

\* null as an operand of * and -: 0
ToNumber(v) == IF v = Null THEN Zero ELSE v

\* x ?? 0
OrZero(v) == IF v = Null THEN Zero ELSE v

\* 1 - weights.reduce((sum, w) => sum + w * w, 0)
DiversificationScore(w) ==
  Sub(One, SumSeq([d \in 1..Len(w) |-> Mul(ToNumber(w[d]), ToNumber(w[d]))]))

----------------------------------------------------------------------------
(* Inputs *)

MaxPoints == 3          \* numPoints of the direct calls of the frontier builder
MaxTopics == 2          \* topics per list of the aggregator's inputs
MaxRequests == 2        \* optimize requests that the portfolio page issues
MaxSwitches == 1        \* calls of switchProject, createProject and importProject
MaxOthers == 1          \* projects of the storage besides that of the portfolio page
MaxPeriod == 3          \* longest cycle of the optimizer's loop that is looked for
CheckEvery == 20        \* iterations between two looks for a cycle

Topic(n, c, r) == [topicNumber |-> n, count |-> c, rarityLabel |-> r]
UnitRow(a) == Vec(LAMBDA d : IF d = a THEN One ELSE Zero)
ConstRow(x) == Vec(LAMBDA d : x)
Tenths(row) == Vec(LAMBDA d : Ratio(row[d], 10))

\* Scenario A of the specification: a RARE and a COMMON topic of 10 papers
ScenarioA ==
  [topics |-> <<Topic(0, 10, "RARE"), Topic(1, 10, "COMMON")>>,
   affinityMatrix |-> (0 :> UnitRow(1)) @@ (1 :> UnitRow(2))]

\* One topic that every direction covers alike: six equal expected returns
ScenarioEqual ==
  [topics |-> <<Topic(0, 3, "COMMON")>>,
   affinityMatrix |-> (0 :> ConstRow(Ratio(5, 10)))]

\* One topic of the first direction only
ScenarioSingle ==
  [topics |-> <<Topic(0, 1, "COMMON")>>,
   affinityMatrix |-> (0 :> UnitRow(1))]

\* No topic but the noise topic -1
ScenarioEmpty ==
  [topics |-> <<Topic(-1, 7, "NO_TOPIC")>>,
   affinityMatrix |-> (-1 :> ConstRow(One))]

\* Three topics with mixed affinities, and the noise topic
ScenarioMixed ==
  [topics |-> <<Topic(0, 5, "RARE"), Topic(-1, 4, "NO_TOPIC"),
                Topic(1, 10, "COMMON"), Topic(2, 3, "COMMON")>>,
   affinityMatrix |-> (0 :> Tenths(<<10, 5, 0, 2, 0, 0>>))
                   @@ (1 :> Tenths(<<0, 10, 5, 0, 4, 0>>))
                   @@ (2 :> Tenths(<<5, 5, 5, 10, 0, 0>>))]

\* Two topics that the directions cover almost alike: affinities 0.5, and
\* 0.504 of the second topic to the first five directions
ScenarioNearEven ==
  [topics |-> <<Topic(0, 1, "COMMON"), Topic(1, 1, "COMMON")>>,
   affinityMatrix |->
     (0 :> ConstRow(Ratio(5, 10)))
       @@ (1 :> Vec(LAMBDA d : IF d < N THEN Ratio(504, 1000) ELSE Ratio(5, 10)))]

\* One topic that the second direction covers half as well as the others,
\* and the noise topic: the last targets of the sweep lie above the return
\* of the uniform weights
ScenarioTilted ==
  [topics |-> <<Topic(0, 3, "COMMON"), Topic(-1, 4, "NO_TOPIC")>>,
   affinityMatrix |-> (0 :> Tenths(<<10, 5, 10, 10, 10, 10>>))]

\* One topic that the first direction covers less than the others
ScenarioSteep ==
  [topics |-> <<Topic(0, 3, "COMMON")>>,
   affinityMatrix |-> (0 :> Tenths(<<4, 10, 10, 10, 10, 10>>))]

\* Two topics whose affinities differ most in the fifth direction: the
\* descent takes the weight of that direction to its lower bound
ScenarioBound ==
  [topics |-> <<Topic(0, 5, "COMMON"), Topic(1, 1, "COMMON")>>,
   affinityMatrix |-> (0 :> ConstRow(One))
                   @@ (1 :> Tenths(<<4, 4, 4, 4, 0, 4>>))]

\* Request bodies of the route
Bodies == {ScenarioEqual, ScenarioEmpty, ScenarioTilted, ScenarioSteep,
           ScenarioBound}

\* Request bodies of the runs of the aggregator
AggregatorBodies == {ScenarioA, ScenarioEqual, ScenarioSingle, ScenarioEmpty,
                     ScenarioMixed, ScenarioNearEven}

\* Inputs of the aggregator: lists of at most MaxTopics topics.  The topic at
\* position k is the topic k - 1, with a row of its own in the affinity
\* matrix or with none, or it is the noise topic -1, which has a row too.
\* A row holds six scores, or fewer: the type number[] fixes no length.
Counts == {0, 1, 3}

\* The first n scores of a row of six
ShortRow(n) == [d \in 1..n |-> Tenths(<<10, 5, 0, 2, 0, 3>>)[d]]
Rows == {UnitRow(1), UnitRow(2), UnitRow(N), Tenths(<<10, 5, 0, 2, 0, 3>>),
         ShortRow(3), ShortRow(0)}

Shapes ==
  {[count |-> c, rarityLabel |-> r, hasRow |-> TRUE, row |-> w] :
     c \in Counts, r \in {"COMMON", "RARE"}, w \in Rows}
    \cup {[count |-> c, rarityLabel |-> r, hasRow |-> FALSE, row |-> <<>>] :
            c \in Counts, r \in {"COMMON", "RARE"}}
    \cup {[count |-> 3, rarityLabel |-> "NO_TOPIC", hasRow |-> TRUE,
           row |-> ConstRow(One)]}

AggregatorInputs == UNION {[1..n -> Shapes] : n \in 0..MaxTopics}

TopicNumberAt(sh, k) == IF sh[k].rarityLabel = "NO_TOPIC" THEN -1 ELSE k - 1

TopicsOf(sh) ==
  [k \in 1..Len(sh) |-> Topic(TopicNumberAt(sh, k), sh[k].count, sh[k].rarityLabel)]

AffinityMatrixOf(sh) ==
  LET withRow == {k \in 1..Len(sh) : sh[k].hasRow}
  IN [t \in {TopicNumberAt(sh, k) : k \in withRow} |->
        sh[CHOOSE k \in withRow : TopicNumberAt(sh, k) = t].row]

\* Direct calls of computeEfficientFrontierTS, with arguments that the
\* aggregator does not produce.
DiagonalMatrix(x) == Vec(LAMBDA a : Vec(LAMBDA b : IF a = b THEN x ELSE Zero))

\* Six expected returns of -0.1
CallNegative ==
  [expectedReturns |-> ConstRow(Neg(Ratio(1, 10))),
   covMatrix |-> DiagonalMatrix(Ratio(1, 1000)),
   bounds |-> DefaultBounds]

\* Expected returns of 1e-7, a covariance of 1e-8 of the first direction
\* with itself and of 0 elsewhere, the first weight bounded to 0.002
CallTinyRisk ==
  [expectedReturns |-> ConstRow(Ratio(1, 10 ^ 7)),
   covMatrix |-> Vec(LAMBDA a : Vec(LAMBDA b :
                   IF a = 1 /\ b = 1 THEN Ratio(1, 10 ^ 8) ELSE Zero)),
   bounds |-> [d \in Dirs |->
                 IF d = 1 THEN <<Ratio(2, 1000), Ratio(2, 1000)>>
                 ELSE <<DEFAULT_MIN, DEFAULT_MAX>>]]

\* The all-zero covariance matrix
CallZeroCov ==
  [expectedReturns |-> Tenths(<<3, 1, 2, 0, 0, 1>>),
   covMatrix |-> DiagonalMatrix(Zero),
   bounds |-> DefaultBounds]

\* Expected returns of both signs
CallMixedSigns ==
  [expectedReturns |-> Vec(LAMBDA d : IF d = 2 THEN Neg(Ratio(2, 10))
                                       ELSE Ratio(d, 10)),
   covMatrix |-> DiagonalMatrix(Ratio(1, 100)),
   bounds |-> DefaultBounds]

FrontierCalls == {CallNegative, CallTinyRisk, CallZeroCov, CallMixedSigns}

\* Calls of the frontier builder whose points are computed in any order
OrderCalls == {CallZeroCov, CallMixedSigns}

\* The list tps with the topic t put in after its first `pos` topics
InsertAt(tps, pos, t) ==
  SubSeq(tps, 1, pos) \o <<t>> \o SubSeq(tps, pos + 1, Len(tps))

\* Request bodies with a topic -1 more: a body of AggregatorBodies, a topic
\* -1 of any count and label put in at any position, and a row of the key -1
\* in the affinity matrix or none.
NoiseTopics == {Topic(-1, c, r) : c \in Counts, r \in {"NO_TOPIC", "RARE", "COMMON"}}

NoiseMatrices(am) == {am} \cup {(-1 :> row) @@ am : row \in Rows}

NoiseBodies ==
  UNION {{[topics |-> InsertAt(body.topics, pos, t), affinityMatrix |-> am] :
            pos \in 0..Len(body.topics), t \in NoiseTopics,
            am \in NoiseMatrices(body.affinityMatrix)} : body \in AggregatorBodies}

\* Request bodies whose affinity rows may be short: two active topics, each
\* with no row, or with a row of 0, 1, 3, 5 or 6 values.
RowChoices == {<<FALSE, <<>>>>} \cup {<<TRUE, ShortRow(n)>> : n \in {0, 1, 3, 5, N}}
                \cup {<<TRUE, UnitRow(2)>>}

ShortBody(c, r, p, q) ==
  [topics |-> <<Topic(0, c, r), Topic(1, 1, "COMMON")>>,
   affinityMatrix |->
     (IF p[1] THEN (0 :> p[2]) ELSE <<>>) @@ (IF q[1] THEN (1 :> q[2]) ELSE <<>>)]

ShortBodies ==
  {ShortBody(c, r, p, q) :
     c \in {1, 3}, r \in {"COMMON", "RARE"}, p \in RowChoices, q \in RowChoices}

\* One topic whose affinity row holds three values only
ScenarioShortRow ==
  [topics |-> <<Topic(0, 3, "COMMON")>>,
   affinityMatrix |-> (0 :> ShortRow(3))]

\* A local that holds no object
None == [none |-> TRUE]

\* A local that holds no array and no number yet
Unset == <<>>

\* The keys of a request body that holds topics and affinityMatrix
BodyKeys == {"topics", "affinityMatrix"}

\* Requests to the route: bodies that lack topics or affinityMatrix (the
\* local is then undefined: it is written <<>> here and bodyKeys tells that
\* it holds no value), bodies that hold an empty array or an empty object
\* for them, and bodies that hold both.
Request(keys, tps, am) == [keys |-> keys, topics |-> tps, affinityMatrix |-> am]

Requests ==
  {Request({}, <<>>, <<>>),
   Request({"topics"}, ScenarioEqual.topics, <<>>),
   Request({"affinityMatrix"}, <<>>, ScenarioEqual.affinityMatrix),
   Request(BodyKeys, <<>>, <<>>),
   Request(BodyKeys, <<>>, ScenarioEqual.affinityMatrix),
   Request(BodyKeys, ScenarioEqual.topics, <<>>),
   Request(BodyKeys, ScenarioEqual.topics, ScenarioEqual.affinityMatrix)}

\* What localStorage holds under the legacy key dep-weights: an array of
\* weights, or a value that is no array
LegacyWeights ==
  {[isArray |-> TRUE,
    weights |-> Vec(LAMBDA d : IF d <= 4 THEN Ratio(2, 10) ELSE Ratio(1, 10))],
   [isArray |-> TRUE, weights |-> <<>>],
   [isArray |-> FALSE, weights |-> <<>>]}

\* Request bodies of the page runs
PageBodies == {ScenarioEqual, ScenarioTilted, ScenarioShortRow}

\* Request bodies of two requests handled concurrently
FirstBodies == {ScenarioEqual, ScenarioSteep}
SecondBodies == {ScenarioEqual, ScenarioEmpty}

\* riskTolerance of the body of the second of two concurrent requests
SecondTolerances == {Ratio(25, 100), One}

\* Direct calls of optimizePortfolioTS.
CorrelatedMatrix(x) == Vec(LAMBDA a : Vec(LAMBDA b : x))

\* Two directions of high expected return, four of none
TwoHighReturns == Vec(LAMBDA d : IF d = 1 THEN Ratio(65, 100)
                                  ELSE IF d = 2 THEN Ratio(6, 10) ELSE Zero)

OptimizerCall(er, cm, target, bnds) ==
  [expectedReturns |-> er, covMatrix |-> cm, targetReturn |-> target,
   bounds |-> bnds]

\* The call of the last point of the route's sweep for Scenario A
CallScenarioA ==
  LET er == ComputeExpectedReturns(ScenarioA.topics, ScenarioA.affinityMatrix)
  IN OptimizerCall(er,
                   ComputeCovarianceMatrix(ScenarioA.topics,
                                           ScenarioA.affinityMatrix),
                   SweepTarget(er, FRONTIER_POINTS - 1, FRONTIER_POINTS),
                   DefaultBounds)

OptimizerCalls ==
  {OptimizerCall(TwoHighReturns, DiagonalMatrix(Ratio(1, 1000)), t, DefaultBounds) :
     t \in {Ratio(3, 10), Ratio(45, 100)}}
  \cup
  {OptimizerCall(Tenths(<<3, 1, 2, 0, 0, 1>>), cm, Ratio(1, 10), b) :
     cm \in {DiagonalMatrix(Zero), CorrelatedMatrix(Ratio(25, 100)),
             CorrelatedMatrix(FromInt(9))},
     b \in {DefaultBounds, ZeroMinBounds}}
  \cup {CallScenarioA}

\* Calls of the optimizer with targets above the return of the uniform
\* weights: six equal expected returns, the maximum at three directions of
\* which the first is not direction 0, and the maximum at the last direction
NudgeCalls ==
  {OptimizerCall(er, DiagonalMatrix(Ratio(1, 1000)), t, DefaultBounds) :
     er \in {ConstRow(Ratio(2, 10)),
             Tenths(<<1, 6, 6, 0, 0, 6>>),
             Tenths(<<1, 2, 3, 0, 0, 6>>)},
     t \in {Ratio(3, 10), Ratio(5, 10)}}

\* Frontiers handed to the selection: 2 to MaxPoints points of risks 0, 1e-6
\* and 2e-6 in any order, each of return 0 or 1
SelectorPoints ==
  {[risk |-> Ratio(r, 10 ^ 6), return |-> x,
    weights |-> ConstRow(Ratio(1667, 10 ^ 4)),
    sharpe_ratio |-> Zero] : r \in 0..2, x \in {Zero, One}}

SelectorFrontiers == UNION {[1..n -> SelectorPoints] : n \in 2..MaxPoints}

\* Values that the user gives the slider of the portfolio page, which shows
\* 0.5 when it is opened
SliderValues == {Zero, One}

\* The frontier of the responses to the requests of the portfolio page, the
\* same for all of them: another project that has an analysis has the topics
\* and the affinity matrix of the project of the page
PagePoint(risk, return, w, sharpe) ==
  [risk |-> risk, return |-> return, weights |-> w, sharpe_ratio |-> sharpe]

PageFrontier ==
  <<PagePoint(Ratio(1, 100), Ratio(1, 10),
              Vec(LAMBDA d : Ratio(IF d <= 4 THEN 1667 ELSE 1666, 10 ^ 4)),
              FromInt(10)),
    PagePoint(Ratio(3, 100), Ratio(2, 10),
              Vec(LAMBDA d : Ratio(<<5000, 3000, 500, 500, 500, 500>>[d], 10 ^ 4)),
              Ratio(66667, 10 ^ 4))>>

\* riskTolerance of the request: the slider's range and values outside it
Tolerances == {Zero, Ratio(25, 100), Ratio(5, 10), One, Neg(Ratio(5, 10)),
               Ratio(15, 10)}

----------------------------------------------------------------------------
(* State *)

VARIABLES
  topics,           \* body.topics
  affinityMatrix,   \* body.affinityMatrix
  riskTolerance,    \* body.riskTolerance
  expectedReturns,  \* computeExpectedReturns(topics, affinityMatrix)
  covMatrix,        \* computeCovarianceMatrix(topics, affinityMatrix)
  bounds,           \* bounds of computeEfficientFrontierTS
  numPoints,        \* numPoints of computeEfficientFrontierTS
  pc,               \* where the handler is
  i,                \* index of the sweep of computeEfficientFrontierTS
  targetReturn,     \* targetReturn of the current optimizePortfolioTS call
  weights,          \* weights of the current optimizePortfolioTS call
  iter,             \* iter of the current optimizePortfolioTS call
  frontier,         \* frontier of computeEfficientFrontierTS
  optimal,          \* the frontier point `optimal` refers to (1-based index)
  selected,         \* the frontier point `selected` refers to (1-based index)
  portfolioResult,  \* what the page stores from the response
  bodyKeys,         \* the keys that the request body holds
  selectedFrontierIdx, \* the page's selectedFrontierIdx: 0 for null, or the
                    \* 1-based index of the frontier dot clicked
  skipAutoOptimize, \* the page's skipAutoOptimize.current
  reordered,        \* the point of an optimizer call made again after a sweep
  page,             \* the portfolio page: its state, refs, timer, requests
                    \* in flight, and the project in the browser's storage
  heap,             \* the arrays and objects of the calls that are told
                    \* apart from their values
  calls             \* the locals of these calls

vars == <<topics, affinityMatrix, riskTolerance, expectedReturns, covMatrix,
          bounds, numPoints, pc, i, targetReturn, weights, iter, frontier,
          optimal, selected, portfolioResult, bodyKeys, selectedFrontierIdx,
          skipAutoOptimize, reordered, page, heap, calls>>

\* What the actions of the one handler leave alone
rest == <<bodyKeys, selectedFrontierIdx, skipAutoOptimize, reordered, page, heap,
         calls>>


\* The state of a handler that has computed nothing yet
Fresh ==
  /\ riskTolerance = Unset
  /\ i = 0
  /\ targetReturn = NaN
  /\ weights = Unset
  /\ iter = 0
  /\ frontier = <<>>
  /\ optimal = 0
  /\ selected = 0
  /\ portfolioResult = None
  /\ selectedFrontierIdx = 0
  /\ skipAutoOptimize = FALSE
  /\ reordered = <<>>
  /\ page = None
  /\ heap = <<>>
  /\ calls = <<>>

\* A request to the optimize route: the handler has read the body, and
\* builds the frontier of 50 points (line 160)
Init ==
  /\ \E body \in Bodies :
       /\ topics = body.topics
       /\ affinityMatrix = body.affinityMatrix
  /\ numPoints = FRONTIER_POINTS
  /\ expectedReturns = Unset
  /\ covMatrix = Unset
  /\ bounds = Unset
  /\ pc = "request"
  /\ bodyKeys = BodyKeys
  /\ Fresh

----------------------------------------------------------------------------
(* Operations *)

\* !topics || !affinityMatrix, for a body whose keys hold arrays and objects
\* when it has them: a key that the body lacks is undefined
Falsy(key) == key \notin bodyKeys

\* POST, lines 139-144: the 400 response
Reject ==
  /\ pc = "request"
  /\ Falsy("topics") \/ Falsy("affinityMatrix")
  /\ pc' = "rejected"
  /\ UNCHANGED rest
  /\ UNCHANGED <<topics, affinityMatrix, riskTolerance, expectedReturns,
                 covMatrix, bounds, numPoints, i, targetReturn, weights, iter,
                 frontier, optimal, selected, portfolioResult>>

\* POST, lines 139-153: the request passes the check of line 139; the
\* aggregator and the default bounds
Aggregate ==
  /\ pc = "request"
  /\ ~(Falsy("topics") \/ Falsy("affinityMatrix"))
  /\ expectedReturns' = ComputeExpectedReturns(topics, affinityMatrix)
  /\ covMatrix' = ComputeCovarianceMatrix(topics, affinityMatrix)
  /\ bounds' = DefaultBounds
  /\ pc' = "sweep"
  /\ UNCHANGED rest
  /\ UNCHANGED <<topics, affinityMatrix, riskTolerance, numPoints, i,
                 targetReturn, weights, iter, frontier, optimal, selected,
                 portfolioResult>>

\* computeEfficientFrontierTS, lines 90-92, and optimizePortfolioTS, lines
\* 23-28: the target of point i and the uniform start of the optimizer
SweepStart ==
  /\ pc = "sweep"
  /\ i < numPoints
  /\ targetReturn' = SweepTarget(expectedReturns, i, numPoints)
  /\ weights' = UniformWeights
  /\ iter' = 0
  /\ pc' = "descend"
  /\ UNCHANGED rest
  /\ UNCHANGED <<topics, affinityMatrix, riskTolerance, expectedReturns,
                 covMatrix, bounds, numPoints, i, frontier, optimal, selected,
                 portfolioResult>>

\* The weights of the iterations from orbit[1] on, nxt being the weights
\* after the last of them, if the loop comes back to orbit[1] within
\* MaxPeriod iterations; the empty sequence if it does not
RECURSIVE Orbit(_, _, _, _, _, _)
Orbit(orbit, nxt, er, cm, target, bnds) ==
  IF nxt = orbit[1] THEN orbit
  ELSE IF Len(orbit) >= MaxPeriod THEN <<>>
  ELSE Orbit(Append(orbit, nxt), GradientStep(nxt, er, cm, target, bnds),
             er, cm, target, bnds)

\* The cycle that the loop is in at the weights of this iteration, nw being
\* the weights after it, or the empty sequence.  An iteration that maps the
\* weights to themselves is seen at once, a longer cycle every CheckEvery
\* iterations.
CycleFrom(nw) ==
  IF iter % CheckEvery = 0
  THEN Orbit(<<weights>>, nw, expectedReturns, covMatrix, targetReturn, bounds)
  ELSE IF nw = weights THEN <<weights>>
  ELSE <<>>

\* The loop after this iteration: one iteration on, or at its end
Iterated(nw, cycle) ==
  IF Len(cycle) > 0
  THEN /\ iter' = iterations
       /\ weights' = cycle[((iterations - iter) % Len(cycle)) + 1]
  ELSE /\ iter' = iter + 1
       /\ weights' = nw

Iteration(nw) == Iterated(nw, CycleFrom(nw))

\* optimizePortfolioTS, lines 30-65: an iteration of the loop.  The weights
\* after an iteration are a function of the weights before it, so a loop that
\* comes back to weights it has had repeats the iterations between them to
\* its end: the weights that the loop has after the iterations left are then
\* those of the cycle at the remainder of their number, and the loop is
\* taken to its end in one step.
Descend ==
  /\ pc \in {"descend", "redescend"}
  /\ iter < iterations
  /\ Iteration(GradientStep(weights, expectedReturns, covMatrix, targetReturn,
                            bounds))
  /\ UNCHANGED rest
  /\ UNCHANGED <<topics, affinityMatrix, riskTolerance, expectedReturns,
                 covMatrix, bounds, numPoints, pc, i, targetReturn, frontier,
                 optimal, selected, portfolioResult>>

\* computeEfficientFrontierTS, lines 94-121: the optimizer has returned; the
\* point is pushed and the sweep goes on
SweepPush ==
  /\ pc = "descend"
  /\ iter = iterations
  /\ frontier' = Append(frontier, FrontierPoint(weights, expectedReturns, covMatrix))
  /\ i' = i + 1
  /\ pc' = "sweep"
  /\ UNCHANGED rest
  /\ UNCHANGED <<topics, affinityMatrix, riskTolerance, expectedReturns,
                 covMatrix, bounds, numPoints, targetReturn, weights, iter,
                 optimal, selected, portfolioResult>>

\* POST, lines 163-197: the best-Sharpe point, the point for the request's
\* risk tolerance, and the response
Select ==
  /\ pc = "sweep"
  /\ i = numPoints
  /\ \E rt \in Tolerances :
       /\ riskTolerance' = rt
       /\ selected' = SelectByRiskTolerance(frontier, rt)
  /\ optimal' = ReduceBestSharpe(frontier, 1, 2)
  /\ pc' = "responded"
  /\ UNCHANGED rest
  /\ UNCHANGED <<topics, affinityMatrix, expectedReturns, covMatrix, bounds,
                 numPoints, i, targetReturn, weights, iter, frontier,
                 portfolioResult>>

\* A point of the frontier as the page reads it from the response
\* (NextResponse.json in the route, res.json() in the page)
JsonPoint(p) ==
  [risk |-> Json(p.risk),
   return |-> Json(p.return),
   weights |-> [d \in 1..Len(p.weights) |-> Json(p.weights[d])],
   sharpe_ratio |-> Json(p.sharpe_ratio)]

\* portfolio/page.tsx, lines 97-128: the portfolioResult that the page makes
\* of a response with the frontier f and the selected point f[sel], for the
\* riskTolerance rt of the request
PortfolioResultOf(f, sel, rt) ==
  [frontier |->
     [k \in 1..Len(f) |->
        [risk |-> JsonPoint(f[k]).risk,
         return_ |-> JsonPoint(f[k]).return,
         weights |-> JsonPoint(f[k]).weights,
         sharpeRatio |-> JsonPoint(f[k]).sharpe_ratio]],
   selectedPortfolio |->
     [weights |-> JsonPoint(f[sel]).weights,
      expectedReturn |-> OrZero(JsonPoint(f[sel]).return),
      risk |-> OrZero(JsonPoint(f[sel]).risk),
      sharpeRatio |-> OrZero(JsonPoint(f[sel]).sharpe_ratio),
      diversificationScore |-> DiversificationScore(JsonPoint(f[sel]).weights)],
   riskTolerance |-> rt]

\* portfolio/page.tsx, lines 95-139 (analysis/page.tsx, lines 616-641, makes
\* the same portfolioResult): the page's portfolioResult from the response,
\* and setSelectedFrontierIdx(null) of line 120
StoreResult ==
  /\ pc = "responded"
  /\ portfolioResult' = PortfolioResultOf(frontier, selected, riskTolerance)
  /\ selectedFrontierIdx' = 0
  /\ pc' = "stored"
  /\ UNCHANGED <<bodyKeys, skipAutoOptimize, reordered, page, heap, calls>>
  /\ UNCHANGED <<topics, affinityMatrix, riskTolerance, expectedReturns,
                 covMatrix, bounds, numPoints, i, targetReturn, weights, iter,
                 frontier, optimal, selected>>

\* maxRisk - minRisk < 1e-8, line 164
MIN_RISK_SPAN == Ratio(1, 10 ^ 8)

\* handleFrontierSelect, lines 161-164: the click changes nothing but the
\* index of the dot
ReturnsEarly(f) ==
  \/ Len(f) < 2
  \/ Less(Sub(ToNumber(f[Len(f)].risk), ToNumber(f[1].risk)), MIN_RISK_SPAN)

\* Math.max(0, Math.min(1, (dotRisk - minRisk) / (maxRisk - minRisk))): the
\* slider value of the frontier dot k
SliderValue(f, k) ==
  MathMax(Zero,
          MathMin(One,
                  Div(Sub(ToNumber(f[k].risk), ToNumber(f[1].risk)),
                      Sub(ToNumber(f[Len(f)].risk), ToNumber(f[1].risk)))))

\* The effect of lines 143-153, run for the riskTolerance rt after the
\* cleanup of its last run has cleared the timer: the timer that it leaves,
\* whose optimize has captured rt
EffectTimer(hasOpt, skip, rt) == IF hasOpt /\ ~skip THEN <<rt>> ELSE <<>>

\* skipAutoOptimize.current after the effect, lines 144-148
EffectSkip(hasOpt, skip) == IF hasOpt THEN FALSE ELSE skip

\* skipAutoOptimize.current after a click that has set it (line 169) and has
\* called setRiskTolerance(v) (line 170), on a page whose riskTolerance is
\* rt: a v that is not rt is rendered within the click, and the effect of
\* lines 143-153 runs for it; a v that is rt changes no state, and no effect
\* runs
SkipAfterClick(hasOpt, v, rt) == IF v = rt THEN TRUE ELSE EffectSkip(hasOpt, TRUE)

\* portfolio/page.tsx, handleFrontierSelect, lines 155-171: a click on the
\* frontier dot idx, and the effect of lines 143-153 when setRiskTolerance of
\* line 170 changes riskTolerance.  The page shows the result it has stored,
\* and optimize has set hasOptimized.current (line 139).
FrontierSelect ==
  /\ pc = "stored"
  /\ \E idx \in 1..Len(portfolioResult.frontier) :
       LET f == portfolioResult.frontier
       IN /\ selectedFrontierIdx' = idx
          /\ IF ReturnsEarly(f)
             THEN UNCHANGED <<riskTolerance, skipAutoOptimize>>
             ELSE /\ skipAutoOptimize' =
                       SkipAfterClick(TRUE, SliderValue(f, idx), riskTolerance)
                  /\ riskTolerance' = SliderValue(f, idx)
  /\ UNCHANGED <<bodyKeys, reordered, page, heap, calls>>
  /\ UNCHANGED <<topics, affinityMatrix, expectedReturns, covMatrix, bounds,
                 numPoints, pc, i, targetReturn, weights, iter, frontier,
                 optimal, selected, portfolioResult>>

\* activeWeights: the weights of the dot clicked, or those of the selected
\* portfolio
ActiveWeights ==
  IF selectedFrontierIdx # 0
  THEN portfolioResult.frontier[selectedFrontierIdx].weights
  ELSE portfolioResult.selectedPortfolio.weights

\* portfolio/page.tsx, handleGenerate, lines 189-200: the active weights are
\* saved as the weights of the selected portfolio, and the page is left
Generate ==
  /\ pc = "stored"
  /\ portfolioResult' =
       [portfolioResult EXCEPT !.selectedPortfolio.weights = ActiveWeights]
  /\ pc' = "generated"
  /\ UNCHANGED rest
  /\ UNCHANGED <<topics, affinityMatrix, riskTolerance, expectedReturns,
                 covMatrix, bounds, numPoints, i, targetReturn, weights, iter,
                 frontier, optimal, selected>>

\* project-manager.ts, migrateLegacyData, lines 317-333: the project made of
\* the legacy keys; its portfolioResult holds the legacy weights when they
\* are an array, and stays null otherwise
MigrateLegacy ==
  /\ pc = "legacy"
  /\ \E legacy \in LegacyWeights :
       portfolioResult' =
         IF legacy.isArray
         THEN [frontier |-> <<>>,
               selectedPortfolio |->
                 [weights |-> legacy.weights,
                  expectedReturn |-> Zero,
                  risk |-> Zero,
                  sharpeRatio |-> Zero,
                  diversificationScore |-> Zero],
               riskTolerance |-> Ratio(5, 10)]
         ELSE None
  /\ pc' = "migrated"
  /\ UNCHANGED rest
  /\ UNCHANGED <<topics, affinityMatrix, riskTolerance, expectedReturns,
                 covMatrix, bounds, numPoints, i, targetReturn, weights, iter,
                 frontier, optimal, selected>>

\* A catalog whose two personal-growth directions share a key
DirectionKeyOfTheme(d) ==
  <<"new_technologies", "trend_analysis", "sales_techniques", "negotiation_hr",
    "personal_growth", "personal_growth">>[d]

\* TRAINING_DIRECTIONS[d - 1].key
DirectionKey(d) ==
  <<"new_technologies", "trend_analysis", "sales_techniques", "negotiation_hr",
    "personal_growth_theory", "personal_growth_practical">>[d]

\* POST, lines 182-185: weightMap[dir.key] = selected.weights[i] for each
\* direction in turn, a later assignment to a key replacing an earlier one
WeightMap(w) ==
  [key \in {DirectionKey(d) : d \in Dirs} |->
     w[CHOOSE d \in Dirs :
         DirectionKey(d) = key /\ \A e \in (d + 1)..N : DirectionKey(e) # key]]

\* POST, lines 187-197: the body of the response, once the route has chosen
\* `optimal` and `selected`
Response ==
  [frontier |-> frontier,
   optimal_portfolio |-> frontier[optimal],
   selected_portfolio |->
     [risk |-> frontier[selected].risk,
      return |-> frontier[selected].return,
      weights |-> frontier[selected].weights,
      sharpe_ratio |-> frontier[selected].sharpe_ratio,
      weight_map |-> WeightMap(frontier[selected].weights)],
   expected_returns |-> expectedReturns,
   risk_tolerance |-> riskTolerance]

\* optimizePortfolioTS as a function, for calls whose loop comes to weights
\* that an iteration maps to themselves within a few iterations: the
\* weights after the k iterations left, from the weights w
RECURSIVE Optimize(_, _, _, _, _, _)

\* ... nw being the weights after the next iteration
OptimizeOn(w, nw, er, cm, target, bnds, k) ==
  IF SameWeights(nw, w) THEN w ELSE Optimize(nw, er, cm, target, bnds, k - 1)

Optimize(w, er, cm, target, bnds, k) ==
  IF k = 0 THEN w
  ELSE OptimizeOn(w, GradientStep(w, er, cm, target, bnds), er, cm, target,
                  bnds, k)

\* computeEfficientFrontierTS as a function: the n points of the sweep
FrontierOf(er, cm, bnds, n) ==
  <<>> \o [k \in 1..n |->
             Then(Optimize(UniformWeights, er, cm, SweepTarget(er, k - 1, n),
                           bnds, iterations),
                  LAMBDA w : FrontierPoint(w, er, cm))]

\* Lines 146-161 of a request with the topics tps and the matrix am: the
\* frontier that computeEfficientFrontierTS returns for the expected
\* returns and the covariance matrix that the aggregator has returned
FrontierFor(tps, am, n) ==
  Then(ComputeExpectedReturns(tps, am), LAMBDA er :
  Then(ComputeCovarianceMatrix(tps, am), LAMBDA cm :
       FrontierOf(er, cm, DefaultBounds, n)))

\* Lines 101-120 for the weights that the call of MinReturnCall has
\* returned: their point is placed at its index
ReorderPush ==
  /\ pc = "redescend"
  /\ iter = iterations
  /\ reordered' =
       (i + 1 :> FrontierPoint(weights, expectedReturns, covMatrix)) @@ reordered
  /\ pc' = "resweep"
  /\ UNCHANGED <<topics, affinityMatrix, riskTolerance, expectedReturns,
                 covMatrix, bounds, numPoints, i, targetReturn, weights, iter,
                 frontier, optimal, selected, portfolioResult, bodyKeys,
                 selectedFrontierIdx, skipAutoOptimize, page, heap, calls>>

\* optimizePortfolioTS, lines 23-28, called with targetReturn = minReturn of
\* line 81 on the inputs of a sweep of one point that has returned: the
\* point of the weights that it returns is placed at index 1 by ReorderPush
MinReturnCall ==
  /\ pc = "sweep"
  /\ i = numPoints
  /\ numPoints = 1
  /\ reordered = <<>>
  /\ targetReturn' = MinReturn(expectedReturns)
  /\ weights' = UniformWeights
  /\ iter' = 0
  /\ i' = 0
  /\ pc' = "redescend"
  /\ UNCHANGED <<topics, affinityMatrix, riskTolerance, expectedReturns,
                 covMatrix, bounds, numPoints, frontier, optimal, selected,
                 portfolioResult, bodyKeys, selectedFrontierIdx,
                 skipAutoOptimize, reordered, page, heap, calls>>

\* What the handlers of the portfolio page leave alone: the locals of the
\* route
routeLocals ==
  <<topics, affinityMatrix, expectedReturns, covMatrix, bounds, numPoints, i,
    targetReturn, weights, iter, frontier, optimal, selected, bodyKeys,
    reordered, heap, calls>>

\* The portfolio page keeps, besides the state it has rendered, the state
\* that setState calls outside a user event have set and that the next
\* render will show: none of it here
NoUpdates ==
  [noAnalysis |-> FALSE,
   riskTolerance |-> <<>>,
   result |-> <<>>,
   loading |-> <<>>,
   selectedFrontierIdx |-> <<>>]

\* The portfolio page before it is opened, for a project that is the current
\* one and has an analysis, the only project of the storage: useState and
\* useRef of lines 52-58, no timer, no request, no state set and not rendered
\* yet.  `last` tells the step before: "slider" after a change of the slider,
\* "other" after any other step of the page.
ClosedPage ==
  [result |-> None,
   loading |-> FALSE,
   hasOptimized |-> FALSE,
   timer |-> <<>>,
   queued |-> NoUpdates,
   inFlight |-> {},
   issued |-> 0,
   latest |-> Unset,
   failed |-> FALSE,
   analysis |-> TRUE,
   inIndex |-> TRUE,
   current |-> "own",
   other |-> "absent",
   deleted |-> FALSE,
   switches |-> 0,
   last |-> "none"]

\* The riskTolerance values of the page: those of the slider and those of
\* the dots of the frontier
PageTolerances ==
  SliderValues \cup {SliderValue(PageFrontier, k) : k \in 1..Len(PageFrontier)}

\* The portfolioResult that optimize (lines 96-130) makes of the response to
\* a request of riskTolerance rt: the route selects by rt on the frontier of
\* the project
ResultSaved(rt) ==
  PortfolioResultOf(PageFrontier, SelectByRiskTolerance(PageFrontier, rt), rt)

\* ResultSaved, for each riskTolerance of the page
SavedResults == [rt \in PageTolerances |-> ResultSaved(rt)]

SavedResult(rt) == IF rt \in PageTolerances THEN SavedResults[rt] ELSE ResultSaved(rt)

\* { frontier, selectedPortfolio }: the page's result of a portfolioResult
ResultOf(pr) ==
  [frontier |-> pr.frontier, selectedPortfolio |-> pr.selectedPortfolio]

\* getCurrentProject() (project-manager.ts, lines 220-224): the current
\* project id is set and the data of its project is stored.  The project of
\* the page is "own"; the storage holds one other project at most.
HasCurrentProject(pg) ==
  \/ pg.current = "own" /\ pg.inIndex
  \/ pg.current = "other" /\ pg.other # "absent"

\* project?.analysis && project?.sourceData, lines 63 and 82
HasAnalysis(pg) ==
  /\ HasCurrentProject(pg)
  /\ IF pg.current = "own" THEN pg.analysis ELSE pg.other = "full"

\* optimize, lines 81-92, called with the captured riskTolerance rt: the
\* page pg once the request is sent with the project that line 81 has read,
\* or after the return of line 82
Started(pg, rt) ==
  IF HasAnalysis(pg)
  THEN [pg EXCEPT !.inFlight = @ \cup {[riskTolerance |-> rt,
                                        seq |-> pg.issued + 1,
                                        own |-> pg.current = "own"]},
                  !.issued = @ + 1,
                  !.latest = rt]
  ELSE pg

\* The page after its first commit: the render with the state of lines
\* 52-56, the restore effect of lines 61-76, whose setNoAnalysis(true) of
\* line 64 or setRiskTolerance and setResult of lines 69-73 a later render
\* shows, and the first run of the effect of lines 143-153, whose timer
\* captures the riskTolerance rt of that render
Mounted(pg, pr, skip, rt) ==
  IF ~HasAnalysis(pg)
  THEN [pg EXCEPT !.queued.noAnalysis = TRUE, !.last = "other"]
  ELSE IF pr = None THEN [pg EXCEPT !.last = "other"]
  ELSE [pg EXCEPT !.queued.riskTolerance = <<pr.riskTolerance>>,
                  !.queued.result = <<ResultOf(pr)>>,
                  !.hasOptimized = TRUE,
                  !.timer = EffectTimer(TRUE, skip, rt),
                  !.last = "other"]

\* The page is opened: its first commit
OpenPage ==
  /\ pc = "closed"
  /\ page' = Mounted(page, portfolioResult, skipAutoOptimize, riskTolerance)
  /\ pc' = "open"
  /\ skipAutoOptimize' =
       EffectSkip(HasAnalysis(page) /\ portfolioResult # None, skipAutoOptimize)
  /\ UNCHANGED <<riskTolerance, portfolioResult, selectedFrontierIdx>>
  /\ UNCHANGED routeLocals

\* The state of a hook after the render: the value set for it, or the one
\* shown before
Rendered(queued, shown) == IF queued = <<>> THEN shown ELSE queued[1]

\* The render of the state set outside a user event, for the riskTolerance
\* rt that it shows: the effect of lines 143-153 runs again when rt is not
\* the riskTolerance of the render before
RenderedPage(rt) ==
  [page EXCEPT !.result = Rendered(page.queued.result, @),
               !.loading = Rendered(page.queued.loading, @),
               !.queued = NoUpdates,
               !.timer = IF rt = riskTolerance THEN @
                         ELSE EffectTimer(page.hasOptimized, skipAutoOptimize, rt),
               !.last = "other"]

\* The page is mounted: it shows the slider and, while it has no result, the
\* Optimize button (lines 211-269), or noAnalysis (line 202)
OnPage == pc \in {"open", "noAnalysis"}

\* The page shows the slider
Shown == pc = "open"

\* React renders the state that the restore effect, a timer's optimize or
\* the continuation of an optimize after its await has set: a task of its
\* own, after the task that has set the state
Render ==
  /\ OnPage
  /\ page.queued # NoUpdates
  /\ pc' = IF page.queued.noAnalysis THEN "noAnalysis" ELSE pc
  /\ riskTolerance' = Rendered(page.queued.riskTolerance, riskTolerance)
  /\ selectedFrontierIdx' =
       Rendered(page.queued.selectedFrontierIdx, selectedFrontierIdx)
  /\ page' = RenderedPage(Rendered(page.queued.riskTolerance, riskTolerance))
  /\ skipAutoOptimize' =
       IF Rendered(page.queued.riskTolerance, riskTolerance) = riskTolerance
       THEN skipAutoOptimize
       ELSE EffectSkip(page.hasOptimized, skipAutoOptimize)
  /\ UNCHANGED portfolioResult
  /\ UNCHANGED routeLocals

\* onChange of the slider, line 230, and the effect of lines 143-153 that
\* the change of riskTolerance runs.  The event is rendered at once, and a
\* riskTolerance set before it and not rendered yet is replaced.
SliderChange ==
  /\ Shown
  /\ \E v \in SliderValues \ {riskTolerance} :
       /\ riskTolerance' = v
       /\ page' = [page EXCEPT
                     !.timer = EffectTimer(page.hasOptimized, skipAutoOptimize, v),
                     !.queued.riskTolerance = <<>>,
                     !.last = "slider"]
  /\ skipAutoOptimize' = EffectSkip(page.hasOptimized, skipAutoOptimize)
  /\ UNCHANGED <<pc, portfolioResult, selectedFrontierIdx>>
  /\ UNCHANGED routeLocals

\* The page sends requests while fewer than MaxRequests are sent
MaySend(pg) == HasAnalysis(pg) => pg.issued < MaxRequests

\* The Optimize button, lines 245-268: shown while the page shows no result,
\* disabled while it shows loading.  optimize (lines 79-92) runs to its
\* await or to the return of line 82 whose finally sets loading false, and
\* the click is rendered at once
ManualOptimize ==
  /\ Shown
  /\ page.result = None
  /\ ~page.loading
  /\ MaySend(page)
  /\ page' = [Started(page, riskTolerance) EXCEPT
                !.loading = HasAnalysis(page),
                !.queued.loading = <<>>,
                !.last = "other"]
  /\ UNCHANGED <<pc, riskTolerance, portfolioResult, selectedFrontierIdx,
                 skipAutoOptimize>>
  /\ UNCHANGED routeLocals

\* The 500 ms of the timer of lines 149-151 have passed: optimize is called
\* with the riskTolerance that the timer has captured, and the loading it
\* sets is rendered later
TimerFires ==
  /\ OnPage
  /\ page.timer # <<>>
  /\ MaySend(page)
  /\ page' = [Started(page, page.timer[1]) EXCEPT
                !.queued.loading = <<HasAnalysis(page)>>,
                !.timer = <<>>,
                !.last = "other"]
  /\ UNCHANGED <<pc, riskTolerance, portfolioResult, selectedFrontierIdx,
                 skipAutoOptimize>>
  /\ UNCHANGED routeLocals

\* The state that the continuation of optimize sets for a later render:
\* setResult and setSelectedFrontierIdx(null) of
\* lines 119-120 and setLoading(false) of line 137
QueuedResponse(queued, result) ==
  [queued EXCEPT !.result = <<result>>,
                 !.selectedFrontierIdx = <<0>>,
                 !.loading = <<FALSE>>]

\* setLoading(false) of line 137 alone
QueuedFailure(queued) == [queued EXCEPT !.loading = <<FALSE>>]

\* optimize, lines 94-139, for the response to the request r, `saved` being
\* the portfolioResult that the page makes of it: saveProject
\* (project-manager.ts, lines 140-159) writes the data of the project that
\* line 81 has read and its entry of the index
Arrived(r, saved) ==
  /\ page' = [page EXCEPT
                !.queued = QueuedResponse(@, ResultOf(saved)),
                !.inFlight = @ \ {r},
                !.hasOptimized = TRUE,
                !.inIndex = IF r.own THEN TRUE ELSE @,
                !.other = IF r.own THEN @ ELSE "full",
                !.last = "other"]
  /\ portfolioResult' = IF r.own THEN saved ELSE portfolioResult

\* optimize, lines 94 and 134-139, for the request r whose response is not
\* ok (the route answers 400 or 500) or whose fetch or res.json() rejects:
\* nothing is set or saved but loading and hasOptimized.current
Failed(r) ==
  /\ page' = [page EXCEPT
                !.queued = QueuedFailure(@),
                !.inFlight = @ \ {r},
                !.hasOptimized = TRUE,
                !.failed = TRUE,
                !.last = "other"]
  /\ UNCHANGED portfolioResult

\* The response to a request in flight arrives, or the request fails:
\* optimize, lines 94-139, with the project that line 81 has read and the
\* riskTolerance captured, whatever the page has rendered meanwhile.  The
\* await of line 95 is followed by reads
\* of captured values only, so the lines after it are taken with the lines
\* before it.
ResponseArrives ==
  /\ OnPage
  /\ \E r \in page.inFlight :
       \/ Arrived(r, SavedResult(r.riskTolerance))
       \/ Failed(r)
  /\ UNCHANGED <<pc, riskTolerance, selectedFrontierIdx, skipAutoOptimize>>
  /\ UNCHANGED routeLocals

\* handleFrontierSelect, lines 156-171, for the dot idx: `early` tells that
\* it returns at line 161 or 164, v is the slider value of the dot.  The
\* click is rendered at once, and what was set before it for the same state
\* and not rendered yet is replaced.
Clicked(idx, early, v) ==
  /\ selectedFrontierIdx' = idx
  /\ riskTolerance' = IF early THEN riskTolerance ELSE v
  /\ skipAutoOptimize' =
       IF early THEN skipAutoOptimize
       ELSE SkipAfterClick(page.hasOptimized, v, riskTolerance)
  /\ page' = [page EXCEPT
                !.timer =
                  IF early \/ v = riskTolerance THEN @
                  ELSE EffectTimer(page.hasOptimized, TRUE, v),
                !.queued.selectedFrontierIdx = <<>>,
                !.queued.riskTolerance = IF early THEN @ ELSE <<>>,
                !.last = "other"]

\* handleFrontierSelect, lines 156-171, for the dot idx of the chart, which
\* the page shows when it shows a result, and the effect of lines 143-153
\* when setRiskTolerance of line 170 changes riskTolerance
DotClick ==
  /\ Shown
  /\ page.result # None
  /\ \E idx \in 1..Len(page.result.frontier) :
       Clicked(idx, ReturnsEarly(page.result.frontier),
               SliderValue(page.result.frontier, idx))
  /\ UNCHANGED <<pc, portfolioResult>>
  /\ UNCHANGED routeLocals

\* The ids of the storage
ProjectIds == {"own", "other"}

\* The project id is in the index, its data in the storage
Stored(pg, id) == IF id = "own" THEN pg.inIndex ELSE pg.other # "absent"

\* removeProject of the project switcher (project-context.tsx, lines 72-81)
\* for a project of the index: deleteProject (project-manager.ts, lines
\* 193-204) removes the entry of the index, the data, and the current id
\* when it is the id deleted
DeleteProject ==
  /\ OnPage
  /\ \E id \in ProjectIds :
       /\ Stored(page, id)
       /\ page' = [page EXCEPT
                     !.inIndex = IF id = "own" THEN FALSE ELSE @,
                     !.deleted = IF id = "own" THEN TRUE ELSE @,
                     !.other = IF id = "other" THEN "absent" ELSE @,
                     !.current = IF @ = id THEN "none" ELSE @,
                     !.last = "other"]
       /\ portfolioResult' = IF id = "own" THEN None ELSE portfolioResult
  /\ UNCHANGED <<pc, riskTolerance, selectedFrontierIdx, skipAutoOptimize>>
  /\ UNCHANGED routeLocals

\* switchProject (project-context.tsx, lines 59-63) for a project of the
\* index that is not the current one: setCurrentProjectId
SwitchProject ==
  /\ OnPage
  /\ page.switches < MaxSwitches
  /\ \E id \in ProjectIds \ {page.current} :
       /\ Stored(page, id)
       /\ page' = [page EXCEPT !.current = id, !.switches = @ + 1, !.last = "other"]
  /\ UNCHANGED <<pc, riskTolerance, portfolioResult, selectedFrontierIdx,
                 skipAutoOptimize>>
  /\ UNCHANGED routeLocals

\* The projects of the storage besides that of the page
Others(pg) == IF pg.other = "absent" THEN 0 ELSE 1

\* createProject (project-context.tsx, lines 65-70): createNewProject
\* (project-manager.ts, lines 161-184) saves a project without analysis and
\* makes it the current one
CreateProject ==
  /\ OnPage
  /\ page.switches < MaxSwitches
  /\ Others(page) < MaxOthers
  /\ page' = [page EXCEPT !.other = "empty", !.current = "other",
                          !.switches = @ + 1, !.last = "other"]
  /\ UNCHANGED <<pc, riskTolerance, portfolioResult, selectedFrontierIdx,
                 skipAutoOptimize>>
  /\ UNCHANGED routeLocals

\* importProject (project-context.tsx, lines 83-88), once the file is read:
\* importProjectFromFile (project-manager.ts, lines 242-283) saves the
\* project of the file, with the analysis and the source data of the file or
\* without, and makes it the current one
ImportProject ==
  /\ OnPage
  /\ page.switches < MaxSwitches
  /\ Others(page) < MaxOthers
  /\ \E kind \in {"empty", "full"} :
       page' = [page EXCEPT !.other = kind, !.current = "other",
                            !.switches = @ + 1, !.last = "other"]
  /\ UNCHANGED <<pc, riskTolerance, portfolioResult, selectedFrontierIdx,
                 skipAutoOptimize>>
  /\ UNCHANGED routeLocals

\* The locals of a handler that has read its body
Requested ==
  /\ numPoints = FRONTIER_POINTS
  /\ expectedReturns = Unset
  /\ covMatrix = Unset
  /\ bounds = Unset
  /\ pc = "request"

\* The aggregator alone, on every input of AggregatorInputs
InitAgg ==
  /\ \E sh \in AggregatorInputs :
       /\ topics = TopicsOf(sh)
       /\ affinityMatrix = AffinityMatrixOf(sh)
  /\ Requested
  /\ bodyKeys = BodyKeys
  /\ Fresh

NextAgg == Aggregate

SpecAgg == InitAgg /\ [][NextAgg]_vars

\* A direct call of computeEfficientFrontierTS or of optimizePortfolioTS:
\* the locals of the route that the call does not have
Called ==
  /\ topics = <<>>
  /\ affinityMatrix = <<>>
  /\ bodyKeys = {}
  /\ riskTolerance = Unset
  /\ i = 0
  /\ iter = 0
  /\ frontier = <<>>
  /\ optimal = 0
  /\ selected = 0
  /\ portfolioResult = None
  /\ selectedFrontierIdx = 0
  /\ skipAutoOptimize = FALSE
  /\ reordered = <<>>
  /\ page = None
  /\ heap = <<>>
  /\ calls = <<>>

\* computeEfficientFrontierTS alone, on the calls of FrontierCalls
InitAny ==
  /\ \E call \in FrontierCalls :
       /\ expectedReturns = call.expectedReturns
       /\ covMatrix = call.covMatrix
       /\ bounds = call.bounds
  /\ numPoints \in 1..MaxPoints
  /\ pc = "sweep"
  /\ targetReturn = NaN
  /\ weights = Unset
  /\ Called

NextAny ==
  \/ SweepStart
  \/ Descend
  \/ SweepPush
  \/ MinReturnCall
  \/ ReorderPush

SpecAny == InitAny /\ [][NextAny]_vars

\* The aggregator on the bodies of AggregatorBodies and of NoiseBodies
InitNoise ==
  /\ \E body \in AggregatorBodies \cup NoiseBodies :
       /\ topics = body.topics
       /\ affinityMatrix = body.affinityMatrix
  /\ Requested
  /\ bodyKeys = BodyKeys
  /\ Fresh

NextNoise == Aggregate

SpecNoise == InitNoise /\ [][NextNoise]_vars

\* The aggregator on the bodies of ShortBodies
InitShort ==
  /\ \E body \in ShortBodies :
       /\ topics = body.topics
       /\ affinityMatrix = body.affinityMatrix
  /\ Requested
  /\ bodyKeys = BodyKeys
  /\ Fresh

NextShort == Aggregate

SpecShort == InitShort /\ [][NextShort]_vars

\* The route on the requests of Requests
InitRoute ==
  /\ \E request \in Requests :
       /\ bodyKeys = request.keys
       /\ topics = request.topics
       /\ affinityMatrix = request.affinityMatrix
  /\ Requested
  /\ Fresh

NextRoute ==
  \/ Reject
  \/ Aggregate
  \/ SweepStart
  \/ Descend
  \/ SweepPush
  \/ Select

SpecRoute == InitRoute /\ [][NextRoute]_vars

\* The pages: a project whose analysis is optimized (the route handles the
\* request and the page stores the result, where a frontier dot may be
\* clicked and the courses generated), or a browser with legacy keys
InitPage ==
  /\ \/ /\ \E body \in PageBodies :
             /\ topics = body.topics
             /\ affinityMatrix = body.affinityMatrix
          /\ bodyKeys = BodyKeys
          /\ pc = "request"
     \/ /\ topics = <<>>
        /\ affinityMatrix = <<>>
        /\ bodyKeys = {}
        /\ pc = "legacy"
  /\ numPoints = FRONTIER_POINTS
  /\ expectedReturns = Unset
  /\ covMatrix = Unset
  /\ bounds = Unset
  /\ Fresh

NextPage ==
  \/ Aggregate
  \/ SweepStart
  \/ Descend
  \/ SweepPush
  \/ Select
  \/ StoreResult
  \/ FrontierSelect
  \/ Generate
  \/ MigrateLegacy

SpecPage == InitPage /\ [][NextPage]_vars

\* optimizePortfolioTS alone, on the calls of OptimizerCalls: lines 23-28
\* have run, the loop is at its first iteration
InitOpt ==
  /\ \E call \in OptimizerCalls :
       /\ expectedReturns = call.expectedReturns
       /\ covMatrix = call.covMatrix
       /\ bounds = call.bounds
       /\ targetReturn = call.targetReturn
  /\ numPoints = 1
  /\ pc = "descend"
  /\ weights = UniformWeights
  /\ Called

NextOpt == Descend

SpecOpt == InitOpt /\ [][NextOpt]_vars

\* optimizePortfolioTS alone, on the calls of NudgeCalls
InitNudge ==
  /\ \E call \in NudgeCalls :
       /\ expectedReturns = call.expectedReturns
       /\ covMatrix = call.covMatrix
       /\ bounds = call.bounds
       /\ targetReturn = call.targetReturn
  /\ numPoints = 1
  /\ pc = "descend"
  /\ weights = UniformWeights
  /\ Called

NextNudge == Descend

SpecNudge == InitNudge /\ [][NextNudge]_vars

\* The selection of the route alone (lines 163-197), on the frontiers of
\* SelectorFrontiers: computeEfficientFrontierTS has returned
InitSel ==
  /\ frontier \in SelectorFrontiers
  /\ numPoints = Len(frontier)
  /\ i = numPoints
  /\ pc = "sweep"
  /\ topics = <<>>
  /\ affinityMatrix = <<>>
  /\ expectedReturns = Unset
  /\ covMatrix = Unset
  /\ bounds = Unset
  /\ bodyKeys = {}
  /\ riskTolerance = Unset
  /\ targetReturn = NaN
  /\ weights = Unset
  /\ iter = 0
  /\ optimal = 0
  /\ selected = 0
  /\ portfolioResult = None
  /\ selectedFrontierIdx = 0
  /\ skipAutoOptimize = FALSE
  /\ reordered = <<>>
  /\ page = None
  /\ heap = <<>>
  /\ calls = <<>>

NextSel == Select

SpecSel == InitSel /\ [][NextSel]_vars

\* The portfolio page of a project with an analysis, and with a
\* portfolioResult saved by an earlier visit or with none, or of a project
\* without analysis
InitUI ==
  /\ pc = "closed"
  /\ riskTolerance = Ratio(5, 10)
  /\ \/ /\ page = ClosedPage
        /\ portfolioResult \in {None, SavedResult(One)}
     \/ /\ page = [ClosedPage EXCEPT !.analysis = FALSE]
        /\ portfolioResult = None
  /\ selectedFrontierIdx = 0
  /\ skipAutoOptimize = FALSE
  /\ topics = <<>>
  /\ affinityMatrix = <<>>
  /\ expectedReturns = Unset
  /\ covMatrix = Unset
  /\ bounds = Unset
  /\ numPoints = FRONTIER_POINTS
  /\ i = 0
  /\ targetReturn = NaN
  /\ weights = Unset
  /\ iter = 0
  /\ frontier = <<>>
  /\ optimal = 0
  /\ selected = 0
  /\ bodyKeys = BodyKeys
  /\ reordered = <<>>
  /\ heap = <<>>
  /\ calls = <<>>

NextUI ==
  \/ OpenPage
  \/ Render
  \/ SliderChange
  \/ ManualOptimize
  \/ TimerFires
  \/ ResponseArrives
  \/ DotClick
  \/ DeleteProject
  \/ SwitchProject
  \/ CreateProject
  \/ ImportProject

SpecUI == InitUI /\ [][NextUI]_vars

Next ==
  \/ Aggregate
  \/ SweepStart
  \/ Descend
  \/ SweepPush
  \/ Select
  \/ StoreResult

Spec == Init /\ [][Next]_vars

----------------------------------------------------------------------------
(* The arrays and objects of the calls *)

\* An array or an object of the program is one thing, whoever refers to it:
\* what one call writes into it, another call that refers to it reads.  The
\* heap maps the id of every array and object to its kind and its content;
\* a local, an element or a field that refers to an array or an object holds
\* its id, and Unset where it refers to none.  The id <<c, k>> is that of the
\* k-th object of the call c, and <<0, k>> that of an object of the module.
Object(kind, val) == [kind |-> kind, val |-> val]

\* TRAINING_DIRECTIONS and DEFAULT_CONSTRAINTS: the objects that the module
\* of the route imports, the same ones for every request
TrainingDirections == <<0, 1>>
DefaultConstraints == <<0, 2>>

ModuleObjects ==
  (TrainingDirections :> Object("keys", [d \in Dirs |-> DirectionKey(d)]))
    @@ (DefaultConstraints
          :> Object("constraints", [min |-> DEFAULT_MIN, max |-> DEFAULT_MAX]))

\* The ids that the object o holds: the elements of an array of objects, the
\* rows of a Record<number, number[]>, the weights of a frontier point
RefsOf(o) ==
  CASE o.kind = "array" -> {o.val[k] : k \in DOMAIN o.val} \ {Unset}
    [] o.kind = "record" -> {o.val[t] : t \in DOMAIN o.val}
    [] o.kind = "point" -> {o.val.weights}
    [] OTHER -> {}

\* The objects that can be reached from the objects of ids
RECURSIVE Reach(_, _)

ReachOn(h, ids, more) == IF more = ids THEN ids ELSE Reach(h, more)

Reach(h, ids) == ReachOn(h, ids, ids \cup UNION {RefsOf(h[x]) : x \in ids})

\* The locals of a call that refer to an array or an object
RefLocals ==
  {"topics", "affinityMatrix", "expectedReturns", "covMatrix", "bounds",
   "frontier", "weights", "optimal", "selected"}

LocalsOf(f) == {f[l] : l \in RefLocals} \ {Unset}

\* What the program can still reach: the objects of the module and what the
\* locals of the calls refer to
Roots(h, cs) ==
  {id \in DOMAIN h : id[1] = 0} \cup UNION {LocalsOf(cs[c]) : c \in DOMAIN cs}

\* The heap h without the objects that the calls cs cannot reach any more
Collected(h, cs) == [id \in Reach(h, Roots(h, cs)) |-> h[id]]

\* The id of the next object that the call c makes
Top(h, c) ==
  CHOOSE k \in {0} \cup {id[2] : id \in {x \in DOMAIN h : x[1] = c}} :
    \A id \in {x \in DOMAIN h : x[1] = c} : id[2] <= k

NextId(h, c) == <<c, Top(h, c) + 1>>

\* The heap with a new object, and the heap with new content in an object
New(h, id, o) == (id :> o) @@ h
Write(h, id, val) == [h EXCEPT ![id].val = val]

\* What a call that makes an object gives: the heap with it, and its id
Made(h, id) == [heap |-> h, ref |-> id]

\* A new number[] that holds xs
NewNumbers(h, c, xs) == Made(New(h, NextId(h, c), Object("numbers", xs)), NextId(h, c))

\* A new number[][]: a new array for every row, and the array of them
RowsFrom(h, c, rows, top) ==
  [id \in {<<c, top + k>> : k \in 1..(Len(rows) + 1)} |->
     IF id[2] = top + Len(rows) + 1
     THEN Object("array", [k \in 1..Len(rows) |-> <<c, top + k>>])
     ELSE Object("numbers", rows[id[2] - top])] @@ h

NewRows(h, c, rows) ==
  Made(RowsFrom(h, c, rows, Top(h, c)), <<c, Top(h, c) + Len(rows) + 1>>)

\* A new TopicInfo[]: a new object for every topic, and the array of them
TopicsFrom(h, c, tps, top) ==
  [id \in {<<c, top + k>> : k \in 1..(Len(tps) + 1)} |->
     IF id[2] = top + Len(tps) + 1
     THEN Object("array", [k \in 1..Len(tps) |-> <<c, top + k>>])
     ELSE Object("topic", tps[id[2] - top])] @@ h

NewTopics(h, c, tps) ==
  Made(TopicsFrom(h, c, tps, Top(h, c)), <<c, Top(h, c) + Len(tps) + 1>>)

\* The place of the key t among the keys, in ascending order
Rank(keys, t) == Cardinality({u \in keys : u <= t})

\* A new Record<number, number[]>: a new array for the row of every key, and
\* the object of them
RecordFrom(h, c, am, top) ==
  [id \in {<<c, top + k>> : k \in 1..(Cardinality(DOMAIN am) + 1)} |->
     IF id[2] = top + Cardinality(DOMAIN am) + 1
     THEN Object("record", [t \in DOMAIN am |-> <<c, top + Rank(DOMAIN am, t)>>])
     ELSE Object("numbers",
                 am[CHOOSE t \in DOMAIN am : Rank(DOMAIN am, t) = id[2] - top])]
    @@ h

NewRecord(h, c, am) ==
  Made(RecordFrom(h, c, am, Top(h, c)), <<c, Top(h, c) + Cardinality(DOMAIN am) + 1>>)

\* A new frontier point: the array of its weights, and the object that
\* refers to it
PointFrom(h, c, p, top) ==
  (<<c, top + 1>> :> Object("numbers", p.weights))
    @@ (<<c, top + 2>> :> Object("point", [p EXCEPT !.weights = <<c, top + 1>>]))
    @@ h

NewPoint(h, c, p) == Made(PointFrom(h, c, p, Top(h, c)), <<c, Top(h, c) + 2>>)

\* What a local that holds id refers to: the value of the array or object,
\* with the values of the arrays and objects that it refers to in turn
RECURSIVE ValueAt(_, _)
ValueAt(h, id) ==
  IF id = Unset THEN Unset
  ELSE CASE h[id].kind = "array" ->
              [k \in DOMAIN h[id].val |-> ValueAt(h, h[id].val[k])]
         [] h[id].kind = "record" ->
              [t \in DOMAIN h[id].val |-> ValueAt(h, h[id].val[t])]
         [] h[id].kind = "point" ->
              [h[id].val EXCEPT !.weights = ValueAt(h, @)]
         [] OTHER -> h[id].val

----------------------------------------------------------------------------
(* The calls, object by object *)

\* The locals of a call that has made nothing yet
NoLocals ==
  [pc |-> "await",
   body |-> None,
   topics |-> Unset,
   affinityMatrix |-> Unset,
   riskTolerance |-> Unset,
   expectedReturns |-> Unset,
   covMatrix |-> Unset,
   bounds |-> Unset,
   numPoints |-> FRONTIER_POINTS,
   frontier |-> Unset,
   i |-> 0,
   targetReturn |-> NaN,
   weights |-> Unset,
   iter |-> 0,
   optimal |-> Unset,
   selected |-> Unset,
   response |-> None]

\* A request to the route whose body is on its way: the handler is at
\* await request.json(), line 128
RouteCall(body) == [NoLocals EXCEPT !.body = body]

\* A direct call of computeEfficientFrontierTS on the arrays er, cm and bnds
BuilderCall(er, cm, bnds, n) ==
  [NoLocals EXCEPT !.pc = "bounds", !.expectedReturns = er, !.covMatrix = cm,
                   !.bounds = bnds, !.numPoints = n]

\* The points of computeEfficientFrontierTS(er, cm, bnds, n) computed one by
\* one in any order, each placed at its index of the array `placed`
PointCalls(er, cm, bnds, n, placed) ==
  [NoLocals EXCEPT !.pc = "reorder", !.expectedReturns = er, !.covMatrix = cm,
                   !.bounds = bnds, !.numPoints = n, !.frontier = placed]

\* JavaScript runs a call to its end, or to an await, before it runs a step
\* of another call: the route awaits the body only (line 128), and
\* computeEfficientFrontierTS and optimizePortfolioTS await nothing.  A call
\* is under way from its first step after the body to its response, a direct
\* call of the builder from its entry to its return, the computation of a
\* point from the call of the optimizer to the point.
UnderWay(f) ==
  f.pc \in {"returns", "covariance", "sweep", "descend", "selected", "redescend"}
    \/ (f.pc = "bounds" /\ f.body # None)

Turn(c) == \A d \in DOMAIN calls \ {c} : ~UnderWay(calls[d])

\* What the steps of these calls leave alone
handler ==
  <<topics, affinityMatrix, riskTolerance, expectedReturns, covMatrix, bounds,
    numPoints, pc, i, targetReturn, weights, iter, frontier, optimal, selected,
    portfolioResult, bodyKeys, selectedFrontierIdx, skipAutoOptimize, reordered,
    page>>

\* POST, lines 128-137: request.json() gives new objects for the body, and
\* the locals of the destructuring refer to them
ReadBody ==
  \E c \in DOMAIN calls :
    /\ Turn(c)
    /\ calls[c].pc = "await"
    /\ \E t \in {NewTopics(heap, c, calls[c].body.topics)} :
       \E m \in {NewRecord(t.heap, c, calls[c].body.affinityMatrix)} :
         /\ calls' = [calls EXCEPT ![c].pc = "request",
                                   ![c].topics = t.ref,
                                   ![c].affinityMatrix = m.ref,
                                   ![c].riskTolerance = calls[c].body.riskTolerance]
         /\ heap' = Collected(m.heap, calls')
    /\ UNCHANGED handler

\* The elements of the array arr that topics.filter((t) => t.topicNumber
\* !== -1) keeps
Kept(h, arr) ==
  SelectSeq(h[arr].val, LAMBDA t : Len(ActiveTopics(<<h[t].val>>)) = 1)

\* A filter that removes the rejected elements from its receiver
FilterInPlace(h, c, arr) == Made(Write(h, arr, Kept(h, arr)), arr)

\* topics.filter(...), lines 17 and 71 of skill-mapper.ts: a new array of
\* the elements kept
Filter(h, c, arr) ==
  Made(New(h, NextId(h, c), Object("array", Kept(h, arr))), NextId(h, c))

\* POST, lines 139-146: the body holds topics and affinityMatrix;
\* computeExpectedReturns (lines 13-60 of skill-mapper.ts) filters the
\* topics, reads the active topics and the rows of the matrix, and returns
\* a new array
CallExpectedReturns ==
  \E c \in DOMAIN calls :
    /\ Turn(c)
    /\ calls[c].pc = "request"
    /\ \E a \in {Filter(heap, c, calls[c].topics)} :
       \E r \in {NewNumbers(a.heap, c,
                            ReturnsOf(ValueAt(a.heap, a.ref),
                                      ValueAt(a.heap, calls[c].affinityMatrix)))} :
         /\ calls' = [calls EXCEPT ![c].pc = "returns",
                                   ![c].expectedReturns = r.ref]
         /\ heap' = Collected(r.heap, calls')
    /\ UNCHANGED handler

\* The matrix that computeCovarianceMatrix returns for the array `active`
\* of the topics kept
CovarianceOn(h, active, am) ==
  Then(Vectors(ValueAt(h, active), ValueAt(h, am)), LAMBDA vectors :
       CovarianceOfVectors(vectors, Len(h[active].val)))

\* POST, line 147: computeCovarianceMatrix (lines 67-106 of skill-mapper.ts)
\* filters the topics, reads the active topics and the rows of the matrix,
\* and returns new rows, which it has regularized in place
CallCovarianceMatrix ==
  \E c \in DOMAIN calls :
    /\ Turn(c)
    /\ calls[c].pc = "returns"
    /\ \E a \in {Filter(heap, c, calls[c].topics)} :
       \E r \in {NewRows(a.heap, c,
                         CovarianceOn(a.heap, a.ref, calls[c].affinityMatrix))} :
         /\ calls' = [calls EXCEPT ![c].pc = "covariance", ![c].covMatrix = r.ref]
         /\ heap' = Collected(r.heap, calls')
    /\ UNCHANGED handler

\* POST, lines 150-153: TRAINING_DIRECTIONS.map(() => [DEFAULT_CONSTRAINTS.min,
\* DEFAULT_CONSTRAINTS.max]), a new pair for every direction
MakeBounds ==
  \E c \in DOMAIN calls :
    /\ Turn(c)
    /\ calls[c].pc = "covariance"
    /\ \E b \in {NewRows(heap, c,
                         [d \in DOMAIN heap[TrainingDirections].val |->
                            <<heap[DefaultConstraints].val.min,
                              heap[DefaultConstraints].val.max>>])} :
         /\ calls' = [calls EXCEPT ![c].pc = "bounds", ![c].bounds = b.ref]
         /\ heap' = Collected(b.heap, calls')
    /\ UNCHANGED handler

\* One array, made when the module is loaded, for the points of all calls
SharedFrontier == <<0, 3>>

ModuleFrontier(h, c) ==
  Made(IF SharedFrontier \in DOMAIN h THEN h
       ELSE New(h, SharedFrontier, Object("array", <<>>)),
       SharedFrontier)

\* const frontier = [], lines 83-88: a new, empty array
NewFrontier(h, c) ==
  Made(New(h, NextId(h, c), Object("array", <<>>)), NextId(h, c))

\* computeEfficientFrontierTS, lines 81-90: the call (lines 156-161 of the
\* route, with 50 points) makes the array of its points
EnterFrontier ==
  \E c \in DOMAIN calls :
    /\ Turn(c)
    /\ calls[c].pc = "bounds"
    /\ \E fr \in {NewFrontier(heap, c)} :
         /\ calls' = [calls EXCEPT ![c].pc = "sweep", ![c].frontier = fr.ref,
                                   ![c].i = 0]
         /\ heap' = Collected(fr.heap, calls')
    /\ UNCHANGED handler

\* The points that the array arr holds
Placed(h, arr) == Cardinality({k \in DOMAIN h[arr].val : h[arr].val[k] # Unset})

\* A target that goes by the number of the points computed so far
TargetOfCount(h, f) ==
  SweepTarget(ValueAt(h, f.expectedReturns), Placed(h, f.frontier), f.numPoints)

\* Lines 81-82 and 91-92: the target of the point of index i
TargetOf(h, f) == SweepTarget(ValueAt(h, f.expectedReturns), f.i, f.numPoints)

\* computeEfficientFrontierTS, lines 90-99, and optimizePortfolioTS, lines
\* 23-28: the target of point i, and new Array(n).fill(1 / n), a new array
\* for the weights
StartPoint ==
  \E c \in DOMAIN calls :
    /\ Turn(c)
    /\ calls[c].pc = "sweep"
    /\ calls[c].i < calls[c].numPoints
    /\ \E w \in {NewNumbers(heap, c, UniformWeights)} :
         /\ calls' = [calls EXCEPT ![c].pc = "descend",
                                   ![c].targetReturn = TargetOf(heap, calls[c]),
                                   ![c].weights = w.ref,
                                   ![c].iter = 0]
         /\ heap' = Collected(w.heap, calls')
    /\ UNCHANGED handler

\* optimizePortfolioTS, lines 32-47: the gradient is a new array; the
\* descent and the projection on the bounds write into the array of the
\* weights
Descent(h, f) ==
  Write(h, f.weights,
        Projected(ValueAt(h, f.weights), ValueAt(h, f.covMatrix),
                  ValueAt(h, f.bounds)))

\* Lines 49-64, on the heap after lines 32-47: weights.map gives a new
\* array, the nudge of line 61 writes into this array, and weights.map
\* gives one more.  These are the weights that the iteration ends with.
Renormalized(h, f) ==
  Constrained(DividedBySum(ValueAt(h, f.weights)), ValueAt(h, f.expectedReturns),
              f.targetReturn)

\* The cycle that the loop of the call f is in at the weights of this
\* iteration, nw being the weights after it, or the empty sequence (see
\* CycleFrom)
CycleOf(h, f, nw) ==
  IF f.iter % CheckEvery = 0
  THEN Orbit(<<ValueAt(h, f.weights)>>, nw, ValueAt(h, f.expectedReturns),
             ValueAt(h, f.covMatrix), f.targetReturn, ValueAt(h, f.bounds))
  ELSE IF nw = ValueAt(h, f.weights) THEN <<nw>>
  ELSE <<>>

\* The number of the iterations that the loop has run after this iteration,
\* and the weights that it has then: those of one more iteration, or, in a
\* cycle, those of the last iteration.  The iterations that are passed over
\* write only into arrays that they have made themselves.
After(f, nw, cycle) ==
  IF Len(cycle) > 0
  THEN [iter |-> iterations,
        weights |-> cycle[((iterations - f.iter) % Len(cycle)) + 1]]
  ELSE [iter |-> f.iter + 1, weights |-> nw]

\* An iteration of the loop of the call c, whose locals are f: the heap
\* after it, the array that `weights` refers to then, and the number of the
\* iterations run
IterationOn(h, c, f) ==
  Then(Descent(h, f), LAMBDA written :
  Then(Renormalized(written, f), LAMBDA nw :
  Then(CycleOf(h, f, nw), LAMBDA cycle :
  Then(After(f, nw, cycle), LAMBDA after :
       [heap |-> New(written, NextId(written, c), Object("numbers", after.weights)),
        ref |-> NextId(written, c),
        iter |-> after.iter]))))

\* optimizePortfolioTS, lines 30-65: an iteration of the loop
Iterate ==
  \E c \in DOMAIN calls :
    /\ Turn(c)
    /\ calls[c].pc \in {"descend", "redescend"}
    /\ calls[c].iter < iterations
    /\ \E it \in {IterationOn(heap, c, calls[c])} :
         /\ calls' = [calls EXCEPT ![c].weights = it.ref, ![c].iter = it.iter]
         /\ heap' = Collected(it.heap, calls')
    /\ UNCHANGED handler

\* Lines 101-120: the point of the weights that the optimizer has returned
\* to the call f, a new object with a new array (weights.map) for the
\* rounded weights
PointOn(h, c, f) ==
  NewPoint(h, c, FrontierPoint(ValueAt(h, f.weights), ValueAt(h, f.expectedReturns),
                               ValueAt(h, f.covMatrix)))

\* computeEfficientFrontierTS, lines 94-121: the optimizer has returned; the
\* point is pushed to the array of the frontier, and the sweep goes on
PushPoint ==
  \E c \in DOMAIN calls :
    /\ Turn(c)
    /\ calls[c].pc = "descend"
    /\ calls[c].iter = iterations
    /\ \E p \in {PointOn(heap, c, calls[c])} :
         /\ calls' = [calls EXCEPT ![c].pc = "sweep", ![c].i = @ + 1,
                                   ![c].weights = Unset]
         /\ heap' = Collected(Write(p.heap, calls[c].frontier,
                                    Append(p.heap[calls[c].frontier].val, p.ref)),
                              calls')
    /\ UNCHANGED handler

\* computeEfficientFrontierTS, line 123, of a direct call: the array of the
\* frontier is returned to the caller, who has the arrays that it has passed
ReturnFrontier ==
  \E c \in DOMAIN calls :
    /\ Turn(c)
    /\ calls[c].pc = "sweep"
    /\ calls[c].i = calls[c].numPoints
    /\ calls[c].body = None
    /\ calls' = [calls EXCEPT ![c].pc = "returned"]
    /\ heap' = Collected(heap, calls')
    /\ UNCHANGED handler

\* POST, lines 163-179: `optimal` and `selected` refer to points of the
\* frontier
SelectPoints ==
  \E c \in DOMAIN calls :
    /\ Turn(c)
    /\ calls[c].pc = "sweep"
    /\ calls[c].i = calls[c].numPoints
    /\ calls[c].body # None
    /\ \E f \in {ValueAt(heap, calls[c].frontier)} :
         calls' = [calls EXCEPT
                     ![c].pc = "selected",
                     ![c].optimal =
                        heap[calls[c].frontier].val[ReduceBestSharpe(f, 1, 2)],
                     ![c].selected =
                        heap[calls[c].frontier].val[
                          SelectByRiskTolerance(f, calls[c].riskTolerance)]]
    /\ heap' = Collected(heap, calls')
    /\ UNCHANGED handler

\* weightMap[dir.key] = selected.weights[i] for the directions of the heap
\* (lines 182-185), and the body of lines 187-197
ResponseBody(f, opt, sel, er, rt) ==
  [frontier |-> f,
   optimal_portfolio |-> opt,
   selected_portfolio |->
     [risk |-> sel.risk,
      return |-> sel.return,
      weights |-> sel.weights,
      sharpe_ratio |-> sel.sharpe_ratio,
      weight_map |-> WeightMap(sel.weights)],
   expected_returns |-> er,
   risk_tolerance |-> rt]

\* POST, lines 182-197: NextResponse.json writes the body of the response
\* from what the locals refer to; the handler returns, and its locals are
\* no more
Respond ==
  \E c \in DOMAIN calls :
    /\ Turn(c)
    /\ calls[c].pc = "selected"
    /\ calls' =
         [calls EXCEPT
            ![c] = [NoLocals EXCEPT
                      !.pc = "responded",
                      !.body = calls[c].body,
                      !.response =
                         ResponseBody(ValueAt(heap, calls[c].frontier),
                                      ValueAt(heap, calls[c].optimal),
                                      ValueAt(heap, calls[c].selected),
                                      ValueAt(heap, calls[c].expectedReturns),
                                      calls[c].riskTolerance)]]
    /\ heap' = Collected(heap, calls')
    /\ UNCHANGED handler

\* The body of the loop of computeEfficientFrontierTS (lines 91-99) for an
\* index k of any choice that has no point yet, before the sequential sweep
\* of the same arrays is entered or after it has returned: the target of the
\* index, and the new array of the optimizer's weights
StartAnyPoint ==
  \E c \in DOMAIN calls :
    /\ Turn(c)
    /\ calls[c].pc = "reorder"
    /\ \E k \in 0..(calls[c].numPoints - 1) :
         /\ heap[calls[c].frontier].val[k + 1] = Unset
         /\ \E w \in {NewNumbers(heap, c, UniformWeights)} :
              /\ calls' = [calls EXCEPT
                             ![c].pc = "redescend",
                             ![c].i = k,
                             ![c].targetReturn =
                                TargetOf(heap, [calls[c] EXCEPT !.i = k]),
                             ![c].weights = w.ref,
                             ![c].iter = 0]
              /\ heap' = Collected(w.heap, calls')
    /\ UNCHANGED handler

\* Lines 101-120 for the index chosen: its point is placed at its index
PlacePoint ==
  \E c \in DOMAIN calls :
    /\ Turn(c)
    /\ calls[c].pc = "redescend"
    /\ calls[c].iter = iterations
    /\ \E p \in {PointOn(heap, c, calls[c])} :
         /\ calls' = [calls EXCEPT ![c].pc = "reorder", ![c].weights = Unset]
         /\ heap' = Collected(Write(p.heap, calls[c].frontier,
                                    [p.heap[calls[c].frontier].val
                                       EXCEPT ![calls[c].i + 1] = p.ref]),
                              calls')
    /\ UNCHANGED handler

----------------------------------------------------------------------------
(* Specifications of the calls, object by object *)

\* The locals of the handler of the specifications above, of which there is
\* none here
NoHandler ==
  /\ topics = <<>>
  /\ affinityMatrix = <<>>
  /\ bodyKeys = {}
  /\ riskTolerance = Unset
  /\ expectedReturns = Unset
  /\ covMatrix = Unset
  /\ bounds = Unset
  /\ numPoints = FRONTIER_POINTS
  /\ pc = "none"
  /\ i = 0
  /\ targetReturn = NaN
  /\ weights = Unset
  /\ iter = 0
  /\ frontier = <<>>
  /\ optimal = 0
  /\ selected = 0
  /\ portfolioResult = None
  /\ selectedFrontierIdx = 0
  /\ skipAutoOptimize = FALSE
  /\ reordered = <<>>
  /\ page = None

\* A request body, with its riskTolerance
WithTolerance(body, rt) ==
  [topics |-> body.topics, affinityMatrix |-> body.affinityMatrix,
   riskTolerance |-> rt]

\* The bodies of the requests whose arrays and objects are followed
InputBodies ==
  {WithTolerance(body, rt) :
     body \in {ScenarioEqual, ScenarioTilted, ScenarioShortRow, ScenarioEmpty},
     rt \in {Zero, One}}

\* One request to the route
InitInputs ==
  /\ heap = ModuleObjects
  /\ \E body \in InputBodies : calls = <<RouteCall(body)>>
  /\ NoHandler

NextInputs ==
  \/ ReadBody
  \/ CallExpectedReturns
  \/ CallCovarianceMatrix
  \/ MakeBounds
  \/ EnterFrontier
  \/ StartPoint
  \/ Iterate
  \/ PushPoint
  \/ SelectPoints
  \/ Respond

SpecInputs == InitInputs /\ [][NextInputs]_vars

\* The bodies of two requests handled concurrently
TwoBodies ==
  {WithTolerance(body, Ratio(5, 10)) : body \in FirstBodies}
    \cup {WithTolerance(body, rt) : body \in SecondBodies, rt \in SecondTolerances}

\* Two requests to the route, on one server
InitTwo ==
  /\ heap = ModuleObjects
  /\ \E first \in FirstBodies, second \in SecondBodies, rt \in SecondTolerances :
       calls = <<RouteCall(WithTolerance(first, Ratio(5, 10))),
                 RouteCall(WithTolerance(second, rt))>>
  /\ NoHandler

NextTwo ==
  \/ ReadBody
  \/ CallExpectedReturns
  \/ CallCovarianceMatrix
  \/ MakeBounds
  \/ EnterFrontier
  \/ StartPoint
  \/ Iterate
  \/ PushPoint
  \/ SelectPoints
  \/ Respond

SpecTwo == InitTwo /\ [][NextTwo]_vars

\* The arrays that a caller passes to computeEfficientFrontierTS
Passed(call) ==
  Then(NewNumbers(ModuleObjects, 1, call.expectedReturns), LAMBDA er :
  Then(NewRows(er.heap, 1, call.covMatrix), LAMBDA cm :
  Then(NewRows(cm.heap, 1, call.bounds), LAMBDA bnds :
       [heap |-> bnds.heap, expectedReturns |-> er.ref, covMatrix |-> cm.ref,
        bounds |-> bnds.ref])))

\* An array of n places that hold no point yet
NoPoints(n) == Object("array", [k \in 1..n |-> Unset])

\* computeEfficientFrontierTS on the calls of OrderCalls: the sequential
\* sweep, and its points computed on the same arrays one by one in any
\* order, before the sweep or after it
InitOrder ==
  /\ \E call \in OrderCalls, n \in 1..MaxPoints :
     \E a \in {Passed(call)} :
       /\ heap = New(a.heap, <<2, 1>>, NoPoints(n))
       /\ calls = <<BuilderCall(a.expectedReturns, a.covMatrix, a.bounds, n),
                    PointCalls(a.expectedReturns, a.covMatrix, a.bounds, n, <<2, 1>>)>>
  /\ NoHandler

NextOrder ==
  \/ EnterFrontier
  \/ StartPoint
  \/ Iterate
  \/ PushPoint
  \/ ReturnFrontier
  \/ StartAnyPoint
  \/ PlacePoint

SpecOrder == InitOrder /\ [][NextOrder]_vars
----------------------------------------------------------------------------
(* Properties *)

\* 1e-6, the tolerance of the sum and of the bounds; 0.001
Tolerance == Ratio(1, 10 ^ 6)
OneThousandth == Ratio(1, 1000)

\* Six zeros
SixZeros == ConstRow(Zero)

\* Some element of w is NaN
HasNaN(w) == \E d \in DOMAIN w : IsNaN(w[d])

\* optimizePortfolioTS has run its loop to the end and returns `weights`
OptimizerReturns == pc = "descend" /\ iter = iterations

\* The aggregator has returned expectedReturns and covMatrix
Aggregated == pc # "request"

\* computeEfficientFrontierTS has returned `frontier`
FrontierReturned == pc \in {"sweep", "responded", "stored"} /\ i = numPoints

\* The route has chosen `optimal` and `selected`
Selected == pc \in {"responded", "stored"}

\* C1: the weight vector that the optimizer returns sums to 1 within 1e-6,
\* and each weight lies within its bounds within 1e-6, whatever the target
\* return of the call.
C1_ReturnedWeightsValid ==
  OptimizerReturns =>
    /\ Leq(MathAbs(Sub(SumSeq(weights), One)), Tolerance)
    /\ \A d \in Dirs :
         /\ Leq(Sub(bounds[d][1], Tolerance), weights[d])
         /\ Leq(weights[d], Add(bounds[d][2], Tolerance))

\* C2: for every topics list and every affinity matrix, the covariance matrix
\* is 6x6, symmetric, and at least 0.001 on its diagonal.
C2_CovarianceSymmetricRegularized ==
  Aggregated =>
    /\ DOMAIN covMatrix = Dirs
    /\ \A a \in Dirs : DOMAIN covMatrix[a] = Dirs
    /\ \A a, b \in Dirs : StrictEquals(covMatrix[a][b], covMatrix[b][a])
    /\ \A a \in Dirs : Leq(OneThousandth, covMatrix[a][a])

\* The head of the loop of the frontier builder for a point after the first
NextTarget == pc = "sweep" /\ pc' = "descend" /\ i > 0

\* The target of the call that starts is a number below which the target of
\* the call before it does not lie
TargetsAscend == [][NextTarget => Leq(targetReturn, targetReturn')]_vars

\* C3, as stated: the frontier builder called with numPoints = N returns
\* exactly N points, and the target returns of the points 0..N-1 do not
\* decrease with the index, for any expected returns.
C3_CountAndAscendingTargets ==
  /\ [](FrontierReturned => Len(frontier) = numPoints)
  /\ TargetsAscend

\* C3, amended: the frontier builder called with numPoints = N returns
\* exactly N points, and the target returns do not decrease with the index
\* when 0.7 * min(expectedReturns) <= 0.95 * max(expectedReturns), as for
\* expected returns that are not negative.
C3_CountAndAscendingTargetsOfOrderedRange ==
  /\ [](FrontierReturned => Len(frontier) = numPoints)
  /\ [][(NextTarget
           /\ Leq(MinReturn(expectedReturns), MaxReturn(expectedReturns)))
          => Leq(targetReturn, targetReturn')]_vars

\* C3's case: a frontier of several points is returned for a range with
\* minReturn < maxReturn, the last target being that of the last index
C3_Witness ==
  /\ FrontierReturned
  /\ numPoints > 1
  /\ Len(frontier) = numPoints
  /\ Less(MinReturn(expectedReturns), MaxReturn(expectedReturns))
  /\ targetReturn = SweepTarget(expectedReturns, numPoints - 1, numPoints)
  /\ Less(SweepTarget(expectedReturns, 0, numPoints), targetReturn)

\* C4: with no topic, or with no topic but the noise topic -1, the expected
\* returns are six zeros and the covariance matrix is 0.001 on the diagonal
\* and 0 elsewhere.
C4_NoActiveTopic ==
  (Aggregated /\ \A k \in 1..Len(topics) : topics[k].topicNumber = -1) =>
    /\ expectedReturns = SixZeros
    /\ covMatrix = DiagonalMatrix(OneThousandth)

\* C4's case: a list of noise topics with papers and affinities of 1
C4_Witness ==
  /\ Aggregated
  /\ Len(topics) = 2
  /\ \A k \in 1..Len(topics) :
       /\ topics[k].topicNumber = -1
       /\ topics[k].count > 0
  /\ -1 \in DOMAIN affinityMatrix
  /\ affinityMatrix[-1] = ConstRow(One)
  /\ expectedReturns = SixZeros
  /\ covMatrix[1][1] = OneThousandth

\* C5: every frontier point whose stored risk is below 1e-8 has the sharpe
\* ratio 0, and the sharpe ratio of every point is a finite number.
C5_NoRiskNoSharpe ==
  \A k \in 1..Len(frontier) :
    /\ Less(frontier[k].risk, SHARPE_RISK_FLOOR) => frontier[k].sharpe_ratio = Zero
    /\ IsFinite(frontier[k].sharpe_ratio)

\* 1 - 1/6
EvenScore == Sub(One, Div(One, FromInt(N)))

\* C6: the diversification score that the page stores for the selected
\* portfolio, computed from the weights of the response, lies in
\* [0, 1 - 1/6], and is 1 - 1/6 only when the six weights are equal.
C6_DiversificationBound ==
  pc = "stored" =>
    /\ Leq(Zero, portfolioResult.selectedPortfolio.diversificationScore)
    /\ Leq(portfolioResult.selectedPortfolio.diversificationScore, EvenScore)
    /\ portfolioResult.selectedPortfolio.diversificationScore = EvenScore =>
         \A d \in Dirs : portfolioResult.selectedPortfolio.weights[d]
                           = portfolioResult.selectedPortfolio.weights[1]

\* The active topics are a RARE topic of affinity 1 to the direction a only
\* and a COMMON topic of affinity 1 to the direction b only, both of c papers
RareAndCommon(a, b, c) ==
  LET act == ActiveTopics(topics)
  IN /\ Len(act) = 2
     /\ \E k, l \in 1..2 :
          /\ act[k].rarityLabel = "RARE"
          /\ act[l].rarityLabel = "COMMON"
          /\ act[k].count = c
          /\ act[l].count = c
          /\ act[k].topicNumber \in DOMAIN affinityMatrix
          /\ act[l].topicNumber \in DOMAIN affinityMatrix
          /\ affinityMatrix[act[k].topicNumber] = UnitRow(a)
          /\ affinityMatrix[act[l].topicNumber] = UnitRow(b)

\* return[a] > return[b] > 0 = return of every other direction
PremiumOrder(a, b) ==
  /\ Less(expectedReturns[b], expectedReturns[a])
  /\ Less(Zero, expectedReturns[b])
  /\ \A d \in Dirs \ {a, b} : expectedReturns[d] = Zero

\* C7, as stated: for a RARE topic of affinity 1 to a only and a COMMON topic
\* of affinity 1 to b only, a # b, of the same paper count, return[a] >
\* return[b] > 0, and the other returns are 0.
C7_RarityPremium ==
  Aggregated =>
    \A a, b \in Dirs : \A c \in Counts :
      (a # b /\ RareAndCommon(a, b, c)) => PremiumOrder(a, b)

\* C7, amended: the same for topics of the same paper count that is not 0.
C7_RarityPremiumOfPapers ==
  Aggregated =>
    \A a, b \in Dirs : \A c \in Counts \ {0} :
      (a # b /\ RareAndCommon(a, b, c)) => PremiumOrder(a, b)

\* C7's case: a RARE topic of direction 1 and a COMMON topic of direction 2,
\* of 3 papers each
C7_Witness ==
  /\ Aggregated
  /\ RareAndCommon(1, 2, 3)
  /\ PremiumOrder(1, 2)

\* The numbers of a frontier point are finite
PointOfNumbers(p) ==
  /\ IsFinite(p.risk)
  /\ IsFinite(p.return)
  /\ IsFinite(p.sharpe_ratio)
  /\ \A d \in Dirs : IsFinite(p.weights[d])

\* The optimizer called with targetReturn = minReturn has returned, and the
\* point of its weights is reordered[1]
MinReturnPoint == numPoints = 1 /\ pc = "resweep" /\ 1 \in DOMAIN reordered

\* C8: the frontier builder called with numPoints = 1 returns exactly one
\* point, the point of the weights that the optimizer returns for the
\* target minReturn = 0.7 * min(expectedReturns) (the same weights, risk,
\* return and sharpe ratio), and the point holds no NaN.
C8_SinglePointAtMinReturn ==
  /\ (numPoints = 1 /\ FrontierReturned) =>
       /\ Len(frontier) = 1
       /\ PointOfNumbers(frontier[1])
  /\ MinReturnPoint => frontier[1] = reordered[1]

\* C9: `optimal` is a point of the frontier whose sharpe ratio is the
\* maximum of the frontier, and the first of the points that have it.
C9_BestSharpeEarliest ==
  Selected =>
    /\ optimal \in 1..Len(frontier)
    /\ \A k \in 1..Len(frontier) :
         Leq(frontier[k].sharpe_ratio, frontier[optimal].sharpe_ratio)
    /\ \A k \in 1..(optimal - 1) :
         Less(frontier[k].sharpe_ratio, frontier[optimal].sharpe_ratio)

\* C9's case: the 50 points of six equal expected returns share the maximum
\* and the first is chosen
C9_Witness ==
  /\ Selected
  /\ Len(frontier) = FRONTIER_POINTS
  /\ \A d \in Dirs : expectedReturns[d] = expectedReturns[1]
  /\ \A k \in 1..Len(frontier) : frontier[k].sharpe_ratio = frontier[1].sharpe_ratio
  /\ Less(Zero, frontier[1].sharpe_ratio)
  /\ optimal = 1

\* |risk of the point k - targetRisk|, for the stored risks
RiskDistance(k) == RiskGap(frontier[k], TargetRisk(frontier, riskTolerance))

\* C10: `selected` is a point of the frontier whose distance to targetRisk =
\* risk(first) + riskTolerance * (risk(last) - risk(first)) is the least of
\* the frontier, and the first of the points that have it; of a frontier of
\* fewer than 2 points it is the first point.
C10_ClosestRiskEarliest ==
  Selected =>
    /\ selected \in 1..Len(frontier)
    /\ Len(frontier) < 2 => selected = 1
    /\ \A k \in 1..Len(frontier) : Leq(RiskDistance(selected), RiskDistance(k))
    /\ \A k \in 1..(selected - 1) : Less(RiskDistance(selected), RiskDistance(k))

\* C10's case: a frontier of points of different risks, of which the risk
\* tolerance 1 selects one that is not the first
C10_Witness ==
  /\ Selected
  /\ Len(frontier) > 1
  /\ riskTolerance = One
  /\ Less(frontier[1].risk, frontier[Len(frontier)].risk)
  /\ selected > 1

\* The bounds admit a weight vector summing to 1
Feasible(bnds) ==
  /\ Leq(SumSeq([d \in Dirs |-> bnds[d][1]]), One)
  /\ Leq(One, SumSeq([d \in Dirs |-> bnds[d][2]]))

\* The direction of the highest expected return among those of `left`
BestOf(er, left) == CHOOSE x \in left : \A y \in left : Leq(er[y], er[x])

\* The highest return of a weight vector within the bounds summing to 1:
\* every weight at its minimum, and the rest of the budget given to the
\* directions in the descending order of their expected returns, each up to
\* its maximum.  `left` are the directions not yet served, acc the return of
\* those served.
RECURSIVE FillByReturn(_, _, _, _, _)
FillByReturn(acc, er, bnds, left, budget) ==
  IF left = {} THEN acc
  ELSE LET d == BestOf(er, left)
           add == MathMin(Sub(bnds[d][2], bnds[d][1]), budget)
       IN FillByReturn(Add(acc, Mul(Add(bnds[d][1], add), er[d])), er, bnds,
                       left \ {d}, Sub(budget, add))

MaxAttainableReturn(er, bnds) ==
  FillByReturn(Zero, er, bnds, Dirs,
               Sub(One, SumSeq([d \in Dirs |-> bnds[d][1]])))

\* Some weight vector within the bounds, summing to 1, has a return of the
\* target or more (by a margin of 1e-6)
Attainable(target, er, bnds) ==
  /\ Feasible(bnds)
  /\ Leq(Add(target, Tolerance), MaxAttainableReturn(er, bnds))

\* C11: whenever the target return of an optimizer call is attainable by a
\* weight vector within the bounds that sums to 1, the returned weights have
\* a return of at least the target.
C11_TargetReturnMet ==
  (/\ OptimizerReturns
   /\ ~IsNaN(targetReturn)
   /\ Attainable(targetReturn, expectedReturns, bounds))
    => /\ ~HasNaN(weights)
       /\ Leq(targetReturn, PortReturn(weights, expectedReturns))

\* C12: the optimizer returns six finite numbers that sum to 1 (within
\* 1e-6), for every covariance matrix (all-zero and perfectly correlated
\* ones included) and every bounds array (a minimum of 0 included).
C12_FiniteNormalizedWeights ==
  OptimizerReturns =>
    /\ DOMAIN weights = Dirs
    /\ \A d \in Dirs : IsFinite(weights[d])
    /\ Leq(MathAbs(Sub(SumSeq(weights), One)), Tolerance)

\* The topics list without its topics -1, and the affinity matrix without
\* the row of the key -1
WithoutNoise(tps) == SelectSeq(tps, LAMBDA t : ~(t.topicNumber = -1))
MatrixWithoutNoise(am) == [t \in DOMAIN am \ {-1} |-> am[t]]

\* C13: the results of computeExpectedReturns and computeCovarianceMatrix
\* are those of the input without its topics -1 and without the row of the
\* key -1: whatever topics -1 the list holds (any number, count, label,
\* position, affinity row), the results are the same.
C13_NoiseTopicExcluded ==
  Aggregated =>
    /\ ComputeExpectedReturns(WithoutNoise(topics),
                              MatrixWithoutNoise(affinityMatrix))
         = expectedReturns
    /\ ComputeCovarianceMatrix(WithoutNoise(topics),
                               MatrixWithoutNoise(affinityMatrix))
         = covMatrix

\* A RARE topic -1 with papers and a row stands among active topics with
\* papers whose directions co-vary
C13_Witness ==
  /\ Aggregated
  /\ \E k \in 1..Len(topics) :
       /\ topics[k].topicNumber = -1
       /\ topics[k].count > 0
       /\ topics[k].rarityLabel = "RARE"
  /\ \E k \in 1..Len(topics) : topics[k].topicNumber # -1 /\ topics[k].count > 0
  /\ -1 \in DOMAIN affinityMatrix
  /\ expectedReturns # SixZeros
  /\ \E a, b \in Dirs : a # b /\ covMatrix[a][b] # Zero

\* The affinity matrix with a 0 for every missing value: a row of six for
\* every active topic
ZeroFilled(tps, am) ==
  [t \in DOMAIN am \cup {tps[k].topicNumber : k \in 1..Len(tps)} |->
     [d \in Dirs |-> IF t \in DOMAIN am /\ d \in DOMAIN am[t] THEN am[t][d]
                     ELSE Zero]]

\* C14: when the row of an active topic is absent from the affinity matrix,
\* or holds no value for some direction, the expected returns and the
\* covariance matrix are those of the matrix with 0 for the missing values,
\* and every element of them is a number (no NaN).
C14_MissingAffinityIsZero ==
  Aggregated =>
    /\ expectedReturns
         = ComputeExpectedReturns(topics, ZeroFilled(topics, affinityMatrix))
    /\ ~HasNaN(expectedReturns)
    /\ ~HoldsNaN(covMatrix)
    /\ covMatrix
         = ComputeCovarianceMatrix(topics, ZeroFilled(topics, affinityMatrix))

\* The route has called computeExpectedReturns and computeCovarianceMatrix
CoreInvoked == pc \notin {"request", "rejected"}

\* C15: the route rejects a request whose topics or affinityMatrix is
\* missing or empty (an empty array, an empty object) before it calls the
\* core functions: the core is only invoked on a body that holds a topic
\* and an affinity row.
C15_MissingOrEmptyRejected ==
  CoreInvoked =>
    /\ "topics" \in bodyKeys
    /\ "affinityMatrix" \in bodyKeys
    /\ Len(topics) > 0
    /\ DOMAIN affinityMatrix # {}

\* A project holds a portfolioResult: the page has stored the route's
\* answer, Generate has saved the active weights, or the legacy weights
\* have been migrated
ResultStored ==
  /\ pc \in {"stored", "generated", "migrated"}
  /\ portfolioResult # None

\* The selected portfolio sp carries the weights, risk, return and sharpe
\* ratio of the point p
CarriesPoint(sp, p) ==
  /\ p.weights = sp.weights
  /\ p.risk = sp.risk
  /\ p.return_ = sp.expectedReturn
  /\ p.sharpeRatio = sp.sharpeRatio

\* C16: in every stored portfolioResult the diversification score of the
\* selected portfolio is 1 minus the sum of the squares of its weights, and
\* its weights, risk, return and sharpe ratio are those of one point of the
\* stored frontier.
C16_SelectedPortfolioConsistent ==
  ResultStored =>
    /\ DOMAIN portfolioResult.selectedPortfolio.weights = Dirs
    /\ portfolioResult.selectedPortfolio.diversificationScore
         = DiversificationScore(portfolioResult.selectedPortfolio.weights)
    /\ \E k \in 1..Len(portfolioResult.frontier) :
         CarriesPoint(portfolioResult.selectedPortfolio,
                      portfolioResult.frontier[k])

\* Lines 146-197 of a request handled alone, every array taken by its
\* value: the body of the response to the topics tps, the matrix am and the
\* risk tolerance rt
ResponseAlone(tps, am, rt) ==
  Then(ComputeExpectedReturns(tps, am), LAMBDA er :
  Then(FrontierFor(tps, am, FRONTIER_POINTS), LAMBDA f :
       ResponseBody(f, f[ReduceBestSharpe(f, 1, 2)],
                    f[SelectByRiskTolerance(f, rt)], er, rt)))

AloneResponses ==
  [body \in TwoBodies |->
     ResponseAlone(body.topics, body.affinityMatrix, body.riskTolerance)]

\* Where the handler is: every step of it changes its position
FirstPosition == <<pc, i, iter>>

\* Every array and every object that a call can reach from its locals is
\* one that this call has made, the objects of its body among them: none is
\* an object of the module or of another call
NothingShared ==
  \A c \in DOMAIN calls :
    \A id \in Reach(heap, LocalsOf(calls[c])) : id[1] = c

\* A call that has responded has given the response to its body alone
RespondsAsAlone ==
  \A c \in DOMAIN calls :
    calls[c].pc = "responded" => calls[c].response = AloneResponses[calls[c].body]

\* C17: of two requests handled concurrently on one server, in whatever
\* order the steps of their handlers follow each other, each gets the
\* response that it gets when handled alone, and the two handlers share no
\* array and no object that can be written to: what a handler reaches from
\* its locals it has made itself.
C17_ConcurrentResponsesAsAlone == NothingShared /\ RespondsAsAlone

\* The second request has its response, the first has pushed points of its
\* frontier since and is in the optimizer, and the two frontiers differ
C17_Witness ==
  /\ calls[2].pc = "responded"
  /\ calls[1].pc = "descend"
  /\ calls[1].iter > 0
  /\ calls[1].i > 0
  /\ calls[2].response.frontier[1] # ValueAt(heap, calls[1].frontier)[1]

\* The locals of a call that refer to the inputs of the core functions:
\* topics and affinityMatrix of the aggregator, and expectedReturns,
\* covMatrix and bounds of the frontier builder, the optimizer and the
\* selector
InputLocals ==
  {"topics", "affinityMatrix", "expectedReturns", "covMatrix", "bounds"}

\* A step of a call that has not returned with it leaves every input that a
\* local of the call refers to as it is: the local refers to the same array
\* or object, and this holds what it held, in itself and in the arrays and
\* objects that it refers to
InputsKept ==
  \A c \in DOMAIN calls : \A l \in InputLocals :
    (calls[c][l] # Unset /\ calls'[c].pc # "responded") =>
      /\ calls'[c][l] = calls[c][l]
      /\ ValueAt(heap', calls'[c][l]) = ValueAt(heap, calls[c][l])

\* C18: the core functions have no side effects on their inputs: no step of
\* computeExpectedReturns and computeCovarianceMatrix changes what the
\* arrays and objects of topics and affinityMatrix hold, and no step of the
\* frontier builder, the optimizer and the selector changes what the arrays
\* of expectedReturns, covMatrix and bounds hold.
C18_InputsUnchanged == [][InputsKept]_<<heap, calls>>

\* The route has selected the points of its response to a body with a topic
\* -1, which the filters of the aggregator have not kept
C18_Witness ==
  \E c \in DOMAIN calls :
    /\ calls[c].pc = "selected"
    /\ Len(Kept(heap, calls[c].topics)) < Len(heap[calls[c].topics].val)
    /\ Len(heap[calls[c].frontier].val) = FRONTIER_POINTS

\* The denominators of the divisions of computeExpectedReturns (lines 48-50)
\* and of computeCovarianceMatrix (lines 84 and 96) on the topics tps
TotalPapersDenominator(tps) == Max(TotalPapers(ActiveTopics(tps)), 1)

ActiveTopicsDenominator(tps) == Max(Len(ActiveTopics(tps)), 1)

\* v.length of line 84: the vector of a direction has a cell per active topic
MeanDenominator(tps) == Len(ActiveTopics(tps))

CovarianceDenominator(tps) == Max(Len(ActiveTopics(tps)) - 1, 1)

\* sum of line 50, the denominator of line 51
RenormalizationDenominator(w, cm, bnds) == SumSeq(Projected(w, cm, bnds))

\* numPoints - 1 of line 92
SweepDenominator(n) == n - 1

\* The steps that divide: the aggregator, the head of the sweep, and an
\* iteration of the optimizer on weights that are numbers
AggregatorDivides == pc = "request" /\ pc' = "sweep"
SweepDivides == pc = "sweep" /\ pc' = "descend"
OptimizerDivides ==
  pc = "descend" /\ pc' = "descend" /\ iter' # iter /\ ~HasNaN(weights)

AggregatorFloors ==
  AggregatorDivides =>
    /\ TotalPapersDenominator(topics) >= 1
    /\ ActiveTopicsDenominator(topics) >= 1
    /\ CovarianceDenominator(topics) >= 1

MeanFloor == AggregatorDivides => MeanDenominator(topics) # 0

RenormalizationFloor ==
  OptimizerDivides =>
    ~IsZero(RenormalizationDenominator(weights, covMatrix, bounds))

SweepFloor == SweepDivides => SweepDenominator(numPoints) # 0

\* C19: no step of the core divides by zero: the denominators of the
\* aggregator (total papers, active-topic count, the length of a direction's
\* vector under its mean, the covariance denominator), the weight sum of the
\* optimizer's renormalization and numPoints - 1 of the sweep fraction are
\* not zero in the step that divides by them.  Every step of the handler
\* changes its position.
C19_DivisionsGuarded ==
  [][AggregatorFloors /\ MeanFloor /\ RenormalizationFloor /\ SweepFloor]_FirstPosition

\* The floors of the sweep fraction and of the renormalization, each on its
\* own
SweepFloorHolds == [][SweepFloor]_FirstPosition
RenormalizationFloorHolds == [][RenormalizationFloor]_FirstPosition

\* The points of the sequential sweep and the points computed one by one
SweepPoints == ValueAt(heap, calls[1].frontier)
PlacedPoints == ValueAt(heap, calls[2].frontier)

\* C20: the point of an index, computed on its own before the sequential
\* sweep or after it and whatever the indices computed before it, is the
\* point that the sequential sweep of the same arrays puts at this index:
\* the points placed at their indices in any order make the frontier of the
\* sequential sweep.
C20_PointsIndependentOfOrder ==
  \A k \in DOMAIN PlacedPoints :
    (PlacedPoints[k] # Unset /\ k \in DOMAIN SweepPoints) =>
      PlacedPoints[k] = SweepPoints[k]

\* The second point has been computed before the first, the sweep has
\* returned, and its first two points differ
C20_Witness ==
  /\ calls[1].pc = "returned"
  /\ Len(SweepPoints) > 1
  /\ PlacedPoints[2] # Unset
  /\ PlacedPoints[1] = Unset
  /\ SweepPoints[1] # SweepPoints[2]

\* weights.map((w) => w / sum), line 51: the weights after the projection
\* and the normalisation of an iteration
Normalized(w, cm, bnds) == DividedBySum(Projected(w, cm, bnds))

\* The lowest index among the directions of the highest expected return
LowestMaxIndex(er) ==
  LET top == {d \in Dirs : \A e \in Dirs : Leq(er[e], er[d])}
  IN CHOOSE d \in top : \A e \in top : d <= e

\* An iteration whose normalised weights return less than the target
NudgeIteration ==
  /\ pc = "descend"
  /\ iter < iterations
  /\ iter' = iter + 1
  /\ ~HasNaN(weights)
  /\ LessThan(PortReturn(Normalized(weights, covMatrix, bounds),
                         expectedReturns),
              targetReturn)

\* The weights v with 0.01 more at the direction k alone, divided by their
\* sum
NudgedAt(v, k) ==
  DividedBySum([d \in Dirs |-> IF d = k THEN Add(v[d], NUDGE) ELSE v[d]])

\* C21: an iteration of the optimizer that nudges adds 0.01 to the weight of
\* one direction only, the lowest index among those of the highest expected
\* return (index 0 when the six returns are equal): the weights after the
\* iteration are the normalised weights nudged there and normalised again.
C21_NudgeLowestMaxIndex ==
  [][NudgeIteration =>
       weights' = NudgedAt(Normalized(weights, covMatrix, bounds),
                           LowestMaxIndex(expectedReturns))]_<<pc, i, iter>>

\* The optimizer has nudged where the highest expected return is that of
\* several directions, the first of which is not direction 0
C21_Witness ==
  /\ pc = "descend"
  /\ iter > 0
  /\ LowestMaxIndex(expectedReturns) = 2
  /\ expectedReturns[6] = expectedReturns[2]
  /\ Less(weights[6], weights[2])

\* The sum of f over the finite set X of indices, in their ascending order,
\* from acc on
RECURSIVE SumOver(_, _, _)
SumOver(acc, X, f) ==
  IF X = {} THEN acc
  ELSE LET x == CHOOSE y \in X : \A z \in X : y <= z
       IN SumOver(Add(acc, f[x]), X \ {x}, f)

\* 0.5 * coverage + 0.3 * rarityBonus + 0.2 * breadth of the direction d, as
\* the specification defines the three terms
StatedReturn(tps, am, d) ==
  LET active == {k \in 1..Len(tps) : tps[k].topicNumber # -1}
      rare == {k \in active : tps[k].rarityLabel = "RARE"}
      affinity == [k \in active |->
                     IF tps[k].topicNumber \in DOMAIN am
                          /\ d \in DOMAIN am[tps[k].topicNumber]
                     THEN am[tps[k].topicNumber][d] ELSE Zero]
      papers == [k \in active |-> Mul(FromInt(tps[k].count), affinity[k])]
      total == FromInt(Max(TotalPapers(SelectSeq(tps, LAMBDA t : t.topicNumber # -1)), 1))
      coverage == Div(SumOver(Zero, active, papers), total)
      rarityBonus == Div(Mul(SumOver(Zero, rare, papers), FromInt(2)), total)
      breadth == Div(FromInt(Cardinality({k \in active : Less(Ratio(3, 10), affinity[k])})),
                     FromInt(Max(Cardinality(active), 1)))
  IN Add(Add(Mul(Ratio(5, 10), coverage), Mul(Ratio(3, 10), rarityBonus)),
         Mul(Ratio(2, 10), breadth))

\* C22: for every direction d, computeExpectedReturns returns
\* 0.5 * coverage + 0.3 * rarityBonus + 0.2 * breadth: coverage the sum of
\* count * affinity[d] over the active topics divided by max(total papers,
\* 1), rarityBonus that sum over the RARE topics times 2 divided by the
\* same, and breadth the number of active topics of affinity[d] strictly
\* above 0.3 divided by max(number of active topics, 1).
C22_ExpectedReturnFormula ==
  Aggregated =>
    \A d \in Dirs : expectedReturns[d] = StatedReturn(topics, affinityMatrix, d)

\* The aggregator has run on a RARE topic with papers whose affinity to the
\* last direction is exactly 0.3, and on a second active topic
C22_Witness ==
  /\ Aggregated
  /\ Len(topics) = 2
  /\ \A k \in 1..2 : topics[k].topicNumber # -1 /\ topics[k].count > 0
  /\ topics[1].rarityLabel = "RARE"
  /\ topics[1].topicNumber \in DOMAIN affinityMatrix
  /\ Len(affinityMatrix[topics[1].topicNumber]) = N
  /\ affinityMatrix[topics[1].topicNumber][N] = Ratio(3, 10)
  /\ Less(Zero, expectedReturns[N])

\* The frontier with nothing but its risks
RisksOnly(f) ==
  [k \in 1..Len(f) |-> [f[k] EXCEPT !.return = Zero, !.sharpe_ratio = Zero]]

\* C23: of a frontier of 2 points or more, the risk tolerance 0 selects the
\* first point, and the risk tolerance 1 the earliest of the points whose
\* risk is that of the last point; the selection is that of the risks alone,
\* whatever the returns and the sharpe ratios.
C23_ToleranceEndpoints ==
  (Selected /\ Len(frontier) >= 2) =>
    /\ riskTolerance = Zero => selected = 1
    /\ riskTolerance = One =>
         /\ frontier[selected].risk = frontier[Len(frontier)].risk
         /\ \A k \in 1..(selected - 1) :
              frontier[k].risk # frontier[Len(frontier)].risk
    /\ selected = SelectByRiskTolerance(RisksOnly(frontier), riskTolerance)

\* The risk tolerance 1 has selected a point that is neither the first nor
\* the last: a point before the last has the risk of the last
C23_Witness ==
  /\ Selected
  /\ riskTolerance = One
  /\ selected > 1
  /\ selected < Len(frontier)
  /\ Less(frontier[selected].risk, frontier[1].risk)

\* 0.5 * 1 + 0.3 * 2 + 0.2 * 1, which the doubles sum to 1.3
HighestReturn == Ratio(13, 10)

\* C24: for topics of non-negative counts and affinities within [0, 1],
\* every element of computeExpectedReturns lies within [0, 1.3]; so
\* minReturn = 0.7 * min is at most maxReturn = 0.95 * max, and the targets
\* of the sweep do not decrease with the index.
C24_ReturnsWithinRange ==
  Aggregated =>
    /\ \A d \in Dirs :
         /\ Leq(Zero, expectedReturns[d])
         /\ Leq(expectedReturns[d], HighestReturn)
    /\ Leq(MinReturn(expectedReturns), MaxReturn(expectedReturns))
    /\ \A n \in 2..MaxPoints : \A k \in 0..(n - 2) :
         Leq(SweepTarget(expectedReturns, k, n),
             SweepTarget(expectedReturns, k + 1, n))

\* The aggregator has given a direction the return 1.3 and another 0
C24_Witness ==
  /\ Aggregated
  /\ \E d \in Dirs : expectedReturns[d] = HighestReturn
  /\ \E d \in Dirs : expectedReturns[d] = Zero
  /\ Less(MinReturn(expectedReturns), MaxReturn(expectedReturns))

\* if (weight < 0.03) continue, generate/route.ts line 85: the weight below
\* which the course of a direction is skipped
SKIP_BELOW == Ratio(3, 100)

\* C25: with the default bounds [0.05, 0.50], every weight of every point of
\* the frontier that the route returns, rounded to 4 decimals, is at least
\* 0.03: the course generation skips no direction of the selected portfolio.
C25_NoDirectionSkipped ==
  \A k \in 1..Len(frontier) : \A d \in Dirs :
    Leq(SKIP_BELOW, frontier[k].weights[d])

\* The route has responded with a frontier holding a weight that the
\* clipping has held near the minimum 0.05, far below the others
C25_Witness ==
  /\ pc = "responded"
  /\ bounds = DefaultBounds
  /\ \E d \in Dirs :
       /\ Less(frontier[selected].weights[d], Ratio(6, 100))
       /\ \E e \in Dirs : Less(Ratio(15, 100), frontier[selected].weights[e])

\* C26: whatever the risk tolerance of the request, within [0, 1] or not
\* (absent, it is 0.5), optimal_portfolio and selected_portfolio of the
\* response are points of its frontier, and weight_map of the selected
\* portfolio gives the key of each direction the weight of the direction.
C26_ResponsePortfoliosOfFrontier ==
  pc = "responded" =>
    /\ \E k \in 1..Len(Response.frontier) :
         Response.optimal_portfolio = Response.frontier[k]
    /\ \E k \in 1..Len(Response.frontier) :
         /\ Response.selected_portfolio.risk = Response.frontier[k].risk
         /\ Response.selected_portfolio.return = Response.frontier[k].return
         /\ Response.selected_portfolio.weights = Response.frontier[k].weights
         /\ Response.selected_portfolio.sharpe_ratio
              = Response.frontier[k].sharpe_ratio
    /\ DOMAIN Response.selected_portfolio.weight_map
         = {DirectionKey(d) : d \in Dirs}
    /\ \A d \in Dirs :
         Response.selected_portfolio.weight_map[DirectionKey(d)]
           = Response.selected_portfolio.weights[d]

\* The route has responded to a risk tolerance above 1 with a point that is
\* not the first and whose weights differ from each other
C26_Witness ==
  /\ pc = "responded"
  /\ Less(One, riskTolerance)
  /\ selected > 1
  /\ Response.selected_portfolio.weights[1]
       # Response.selected_portfolio.weights[N]

\* Every request that the page has sent has its response, none has failed,
\* the page has rendered what the responses have set, and the project of the
\* page has stayed the current one and was not deleted meanwhile
AllResponsesArrived ==
  /\ pc = "open"
  /\ page.issued > 0
  /\ page.inFlight = {}
  /\ page.queued = NoUpdates
  /\ ~page.deleted
  /\ page.switches = 0
  /\ ~page.failed

\* C27: once the responses to all optimize requests of the page have
\* arrived, in whatever order, the result shown and the portfolioResult
\* saved are those of the riskTolerance of the latest request, and the saved
\* riskTolerance is that of the saved selected portfolio.
C27_LatestToleranceWins ==
  AllResponsesArrived =>
    /\ page.result = ResultOf(SavedResult(page.latest))
    /\ portfolioResult = SavedResult(page.latest)
    /\ portfolioResult.selectedPortfolio
         = SavedResult(portfolioResult.riskTolerance).selectedPortfolio

\* What a step of the page may change
pageVars ==
  <<pc, riskTolerance, selectedFrontierIdx, skipAutoOptimize, page.last,
    page.timer, page.issued, page.loading, page.hasOptimized, page.inIndex>>

\* C28: whatever dot clicks came before (a click that leaves riskTolerance as
\* it is included), a change of the slider by the user, on a page that has
\* optimized, schedules an optimize of the new riskTolerance.
C28_SliderChangeSchedulesOptimize ==
  [][(page.last' = "slider" /\ page.hasOptimized)
       => page.timer' = <<riskTolerance'>>]_pageVars

\* C29: the timer of an automatic optimize is set only by a change of the
\* slider on a page that has optimized; opening the page, with a saved
\* portfolioResult or without, sets no timer, so that no request is sent and
\* the saved result stays until the user moves the slider.
C29_AutoOptimizeOnlyAfterSliderChange ==
  [][(page.timer' # <<>> /\ page.timer' # page.timer)
       => (page.last' = "slider" /\ page.hasOptimized)]_pageVars

\* C30: a project that deleteProject has removed is not in the index, and
\* its data not in the storage, in any later state.
C30_DeletedStaysDeleted == page.deleted => ~page.inIndex

====
